---- MODULE Spec2Model ----
(***************************************************************************)
(* Model of the content collection pipeline of personal-feed              *)
(* (firestore-gorse-sync): the per-host RateLimiter and the               *)
(* collectAllContent orchestrator with its storage, metrics and ranker    *)
(* (Gorse) side effects, the query-API fetchers with retryWithBackoff, and *)
(* the normalizer functions stripHTML, normalizeContent and generateDocId, *)
(* and the recommendation endpoints with their cache and per-user throttle.*)
(* and the legacy feed ingestion ingestAllFeeds (ingestion.js).           *)
(***************************************************************************)
EXTENDS Integers, Sequences, FiniteSets, TLC

(***************************************************************************)
(* Bounds and configuration                                                *)
(***************************************************************************)
\* content ids (values of generateDocId) that the feeds can deliver
NumIds == 3
\* process.env.MAX_NEW_ITEMS_PER_RUN (default 2000), configured small
MAX_NEW_ITEMS_PER_RUN == 2
\* process.env.FETCH_CONCURRENCY (default 5), configured small
FETCH_CONCURRENCY == 2

\* cache invalidations (POST /invalidate-cache, POST /interaction/sync)
MaxInvalidations == 1
\* the largest count asked of the recommendation computation
MaxCount == 3

\* feeds of FEED_SOURCES (ingestion.js), and new items one feed can deliver
NumFeeds == 3
MaxPerFeed == 2
\* "Firestore batch limit is 500", small
BatchLimit == 3

\* new RateLimiter(maxPerSecond), constructed with a small rate
maxPerSecond == 2
\* throttle(host) calls made while the model runs
MaxCalls == 4
\* the model stops the clock here
MaxTime == 2020

Hosts == {"newsapi.org", "content.guardianapis.com", "export.arxiv.org"}
Calls == 1..MaxCalls
\* how far the clock moves between two events (ms), when it does not move
\* to the instant a pending timer is due
Deltas == {500, 1000}

Ids == 1..NumIds
Runs == {1, 2}
NoDoc == [exists |-> FALSE, createdAt |-> 0]
NoMetrics == [exists |-> FALSE]

\* A fetched item {docId, data}; of data only publishedAt matters to the
\* orchestrator: dateOk is FALSE when new Date(publishedAt) is an Invalid Date.
Item(id, ok) == [docId |-> id, dateOk |-> ok]

\* The articles the k-th outbound request of a run can deliver: two ids per
\* request, neighbouring requests sharing one (the same article in two feeds).
IdOf(k) == ((k - 1) % NumIds) + 1
Catalogue(k) == {Item(IdOf(k), TRUE), Item(IdOf(k + 1), TRUE)}

\* What the k-th request can answer with when it succeeds.
Responses(k) == {<<>>} \cup {<<it>> : it \in Catalogue(k)}

\* The fetcher groups of collectAllContent that the model keeps, in the order
\* of the fetchers array: an RSS group of two feeds, and the two API fetchers.
Fetchers == <<"poetry", "newsapi", "guardian">>
FetcherNames == {Fetchers[k] : k \in 1..Len(Fetchers)}

\* Sources (feeds) configured in each group.
PoetrySources == <<"poetryfoundation", "themarginalian">>
GroupSources(g) ==
  CASE g = "poetry" -> {PoetrySources[k] : k \in 1..Len(PoetrySources)}
    [] g = "newsapi" -> {"NewsAPI"}
    [] g = "guardian" -> {"Guardian"}

RECURSIVE FlattenSeq(_)
\* Array.prototype.flat() on an array of arrays
FlattenSeq(ss) == IF ss = <<>> THEN <<>> ELSE Head(ss) \o FlattenSeq(Tail(ss))

\* options.sources: null, or a list of group names
NullSources == [isNull |-> TRUE, names |-> {}]
Sources(names) == [isNull |-> FALSE, names |-> names]
AllSelections == {NullSources} \cup {Sources(ns) : ns \in SUBSET FetcherNames}
GuardianOnly == {Sources({"guardian"})}

\* fetchers.filter(f => sources.includes(f.name)); sources = null keeps all
ActiveFetchers(sources) ==
  IF sources.isNull THEN Fetchers
  ELSE SelectSeq(Fetchers, LAMBDA n : n \in sources.names)

\* The outcome of one outbound request: it throws, or it answers with items.
\* The Guardian request may also deliver an article with an unparseable date.
Outcomes(k) == {[ok |-> FALSE, items |-> <<>>]} \cup
               {[ok |-> TRUE, items |-> x] : x \in Responses(k)}
GuardianOutcomes == Outcomes(5) \cup {[ok |-> TRUE, items |-> <<Item(IdOf(5), FALSE)>>]}

\* Records already in storage when the service starts.
PreStored == {{}, {1}}

VARIABLES
  store,          \* collection 'content': id -> NoDoc or the stored record
  clock,          \* value the next new Date() returns
  writeCount,     \* id -> number of docRef.set() calls that wrote the record
  metricsLatest,  \* collection_metrics/latest
  metricsState,   \* last_collection_run/state
  gorseCalls,     \* gorseRequest('/api/items', 'POST', ...) calls made
  NEWSAPI_KEY,    \* whether process.env.NEWSAPI_KEY is set
  GUARDIAN_API_KEY,
  run,            \* per invocation of collectAllContent: its local state
  overlapped,     \* some two invocations were in progress at the same time
  now,            \* Date.now(), in milliseconds since the service started
  hostQueues,     \* RateLimiter.hostQueues: host -> timestamps, oldest first
  call,           \* per throttle(host) call: where it is
  admitted,       \* host -> the timestamps recorded by calls that returned
  fc,             \* one call of a query-API fetcher or of retryWithBackoff
  pure,           \* one call of normalizeContent or of generateDocId
  cache,          \* the recommendation cache: key -> {data, timestamp}
  rateLimitMap,   \* uid -> Date.now() of the last accepted request, 0: none
  dateNow,        \* Date.now() as the recommendation endpoints read it
  req,            \* per GET /recommendations request: where it is
  hist,           \* history of the endpoints, read by the properties only
  rec,            \* one recommendation computation: its inputs and result
  ing             \* one run of ingestAllFeeds (ingestion.js): its local state

collectVars == <<store, clock, writeCount, metricsLatest, metricsState,
                 gorseCalls, NEWSAPI_KEY, GUARDIAN_API_KEY, run, overlapped>>
rlVars == <<now, hostQueues, call, admitted>>
fetchVars == <<fc>>
pureVars == <<pure>>
resolverVars == <<cache, rateLimitMap, dateNow, req, hist>>
recVars == <<rec>>
ingestVars == <<ing>>
\* the variables outside the collection orchestrator
notCollect ==
  <<rlVars, fetchVars, pureVars, resolverVars, recVars, ingestVars>>
\* the variables outside the RateLimiter
notRL ==
  <<collectVars, fetchVars, pureVars, resolverVars, recVars, ingestVars>>
\* the variables outside the fetchers and the RateLimiter they call
notFetch ==
  <<collectVars, pureVars, resolverVars, recVars, ingestVars>>
\* the variables outside the normalizer functions
notPure ==
  <<collectVars, rlVars, fetchVars, resolverVars, recVars, ingestVars>>
\* the variables outside the recommendation endpoints
notResolver ==
  <<collectVars, rlVars, fetchVars, pureVars, recVars, ingestVars>>
\* the variables outside the recommendation computation
notRec ==
  <<collectVars, rlVars, fetchVars, pureVars, resolverVars, ingestVars>>
\* the variables outside ingestAllFeeds
notIngest ==
  <<collectVars, rlVars, fetchVars, pureVars, resolverVars, recVars>>
vars ==
  <<collectVars, rlVars, fetchVars, pureVars, resolverVars, recVars,
    ingestVars>>

(***************************************************************************)
(* Local state of one invocation of collectAllContent                      *)
(***************************************************************************)
IdleRun ==
  [pc |-> "idle", dry |-> FALSE, sources |-> NullSources, active |-> <<>>,
   status |-> [g \in FetcherNames |-> "none"],
   results |-> [g \in FetcherNames |-> <<>>],
   allItems |-> <<>>, errors |-> <<>>,
   feedsAttempted |-> 0, feedsSucceeded |-> 0,
   i |-> 1, newItemsAdded |-> 0, existingItems |-> 0, itemsToSync |-> <<>>,
   syncedToGorse |-> 0, totalItemsInFirestore |-> 0, ret |-> "none",
   \* history of the invocation, read by the properties only
   storeAtStart |-> [id \in Ids |-> NoDoc], after |-> {}, written |-> <<>>,
   ioFailedAt |-> {}, raisedAt |-> "none"]

InProgress(r) == run[r].pc \notin {"idle", "done", "raised"}
Running(r) == {g \in FetcherNames : run[r].status[g] = "running"}
StoredIds == {id \in Ids : store[id].exists}

\* RateLimiter constructor: no host has a queue yet (an absent queue and an
\* empty one behave alike in throttle).
RateLimiterInit ==
  /\ now = 0
  /\ hostQueues = [h \in Hosts |-> <<>>]
  /\ call = [c \in Calls |-> [pc |-> "idle", host |-> "none", wakeAt |-> 0, waited |-> FALSE]]
  /\ admitted = [h \in Hosts |-> <<>>]

CollectInit ==
  /\ \E pre \in PreStored :
       store = [id \in Ids |-> IF id \in pre
                               THEN [exists |-> TRUE, createdAt |-> 0]
                               ELSE NoDoc]
  /\ clock = 1
  /\ writeCount = [id \in Ids |-> 0]
  /\ metricsLatest = NoMetrics
  /\ metricsState = NoMetrics
  /\ gorseCalls = <<>>
  /\ NEWSAPI_KEY \in BOOLEAN
  /\ GUARDIAN_API_KEY \in BOOLEAN
  /\ run = [r \in Runs |-> IdleRun]
  /\ overlapped = FALSE

\* an error object: error.status, error.response?.status (0: undefined) and
\* error.message
NoError == [status |-> 0, responseStatus |-> 0, message |-> "none"]
NoResult == [success |-> FALSE, source |-> "none", error |-> "none", items |-> <<>>]

\* No fetcher and no retryWithBackoff call has been made.
IdleCall ==
  [pc |-> "idle", caller |-> "none", topic |-> 1, maxRetries |-> 3, i |-> 0,
   allItems |-> <<>>, result |-> NoResult, threw |-> FALSE, thrown |-> NoError,
   \* history of the call, read by the properties only
   keyAtEntry |-> TRUE, responses |-> <<>>, invoked |-> <<>>, delays |-> <<>>,
   retryOutcome |-> "none"]

FetchInit == fc = IdleCall

\* a date string: absent (undefined or ''), or a text that Date parses to the
\* instant time (ms), or a text that Date cannot parse
NoDate == [present |-> FALSE, parseable |-> FALSE, time |-> 0]
\* a feed item as the fetchers hand it to normalizeContent; a string field is
\* a sequence of characters, <<>> when the field is undefined or ''
NoItem ==
  [title |-> <<>>, description |-> <<>>, contentSnippet |-> <<>>,
   summary |-> <<>>, isoDate |-> NoDate, pubDate |-> NoDate,
   published |-> NoDate, link |-> <<>>]
NoRecord ==
  [title |-> <<>>, excerpt |-> <<>>, plain_text |-> <<>>,
   publishedAt |-> [valid |-> FALSE, time |-> 0], url |-> <<>>,
   license |-> "none", contentType |-> "none", important |-> FALSE]

\* No normalizer function has been called.
IdlePure ==
  [pc |-> "idle", fn |-> "none", item |-> NoItem, license |-> "none",
   out |-> NoRecord, kind |-> "none", url |-> <<>>, url2 |-> <<>>,
   id |-> <<>>, id2 |-> <<>>]

PureInit == pure = IdlePure

\* users and counts of the recommendation requests
Uids == {<<"u">>, <<"v">>}
Counts == {1, 2}
\* the GET /recommendations requests made while the model runs
Reqs == {1, 2}

\* String(count)
Digits(count) == IF count = 1 THEN <<"1">> ELSE <<"2">>

\* getCacheKey(uid, count): `${uid}:${count}`
getCacheKey(uid, count) == uid \o <<":">> \o Digits(count)
Keys == {getCacheKey(u, c) : u \in Uids, c \in Counts}

NoData == [items |-> <<>>, source |-> "none"]
NoEntry == [present |-> FALSE, data |-> NoData, timestamp |-> 0]

\* A request that has not arrived.
IdleReq ==
  [pc |-> "idle", uid |-> <<>>, count |-> 1, status |-> 0, cached |-> FALSE,
   source |-> "none", items |-> <<>>, error |-> "none",
   rankerCalled |-> FALSE, storageRead |-> FALSE,
   \* history of the request, read by the properties only
   arrivedAt |-> 0, doneAt |-> 0, hit |-> FALSE, epochAt |-> 0,
   prevWriter |-> 0, lastAcceptedAt |-> 0, clearedSince |-> FALSE,
   firstAfterInvalidate |-> FALSE, wrote |-> FALSE, settledBefore |-> {}]

\* const cache = new Map(); const rateLimitMap = new Map(); no request yet
ResolverInit ==
  /\ cache = [k \in Keys |-> NoEntry]
  /\ rateLimitMap = [u \in Uids |-> 0]
  /\ dateNow = 1000
  /\ req = [r \in Reqs |-> IdleReq]
  /\ hist = [epoch |-> [u \in Uids |-> 0],
             lastWriter |-> [k \in Keys |-> 0],
             lastAccepted |-> [u \in Uids |-> 0],
             cleared |-> [u \in Uids |-> FALSE],
             invalidated |-> [u \in Uids |-> FALSE],
             invalidations |-> 0]

\* no recommendation is being computed
IdleRec == [pc |-> "idle"]
RecInit == rec = IdleRec

\* ingestAllFeeds is not running
IdleIngest ==
  [pc |-> "idle", mode |-> "full", max |-> 0, feed |-> 1, allNewItems |-> <<>>,
   totalNewItems |-> 0, failedFeeds |-> 0, next |-> 1, committed |-> FALSE,
   inserted |-> {}, syncedToGorse |-> 0, errors |-> 0]
IngestIdle == ing = IdleIngest

Init ==
  /\ CollectInit /\ RateLimiterInit /\ FetchInit /\ PureInit /\ ResolverInit
  /\ RecInit /\ IngestIdle

\* collectAllContent(db, gorseRequest, {dry, sources}): entry up to the
\* creation of the pLimit pool and of the queued fetcher promises.
StartRun(r, selections) ==
  /\ run[r].pc = "idle"
  /\ \E dry \in BOOLEAN, sources \in selections :
       LET active == ActiveFetchers(sources) IN
       run' = [run EXCEPT ![r] =
                 [@ EXCEPT !.pc = "fetching", !.dry = dry, !.sources = sources,
                           !.active = active,
                           !.status = [g \in FetcherNames |->
                                         IF \E k \in 1..Len(active) : active[k] = g
                                         THEN "queued" ELSE "none"],
                           !.storeAtStart = store,
                           !.after = {q \in Runs : run[q].pc \in {"done", "raised"}}]]
  /\ overlapped' = (overlapped \/ \E q \in Runs \ {r} : InProgress(q))
  /\ UNCHANGED <<store, clock, writeCount, metricsLatest, metricsState,
                 gorseCalls, NEWSAPI_KEY, GUARDIAN_API_KEY, notCollect>>

\* a pool that starts every queued function at once
PoolAdmits_Unbounded(r) == TRUE

\* pLimit(FETCH_CONCURRENCY): a queued function starts, in queue order, when
\* fewer than FETCH_CONCURRENCY are running.
PoolAdmits(r) == Cardinality(Running(r)) < FETCH_CONCURRENCY

StartGroup(r, g) ==
  /\ run[r].pc = "fetching"
  /\ run[r].status[g] = "queued"
  /\ \A k \in 1..Len(run[r].active) :
       run[r].status[run[r].active[k]] = "queued" =>
         \A j \in 1..Len(run[r].active) : run[r].active[j] = g => j <= k
  /\ PoolAdmits(r)
  /\ run' = [run EXCEPT ![r] = [@ EXCEPT !.status[g] = "running"]]
  /\ UNCHANGED <<store, clock, writeCount, metricsLatest, metricsState,
                 gorseCalls, NEWSAPI_KEY, GUARDIAN_API_KEY, overlapped, notCollect>>

\* fetchRSS(url, ...): one feed request; a parse error or timeout is caught
\* and becomes a success:false result.
fetchRSS(url, o) ==
  IF o.ok THEN [items |-> o.items, success |-> TRUE, source |-> url, error |-> "none"]
  ELSE [items |-> <<>>, success |-> FALSE, source |-> url, error |-> "fetch failed"]

\* fetchNewsAPI(): no key, or one request per topic whose error is caught and
\* only logged; success is "some article was collected".
fetchNewsAPI(o1, o2) ==
  IF ~NEWSAPI_KEY
  THEN [items |-> <<>>, success |-> FALSE, source |-> "NewsAPI", error |-> "API key not configured"]
  ELSE LET allItems == (IF o1.ok THEN o1.items ELSE <<>>) \o
                       (IF o2.ok THEN o2.items ELSE <<>>)
       IN [items |-> allItems, success |-> Len(allItems) > 0, source |-> "NewsAPI", error |-> "none"]

\* fetchGuardianAPI(): no key, or one request inside try/catch.
fetchGuardianAPI(o) ==
  IF ~GUARDIAN_API_KEY
  THEN [items |-> <<>>, success |-> FALSE, source |-> "Guardian", error |-> "API key not configured"]
  ELSE IF o.ok
       THEN [items |-> o.items, success |-> TRUE, source |-> "Guardian", error |-> "none"]
       ELSE [items |-> <<>>, success |-> FALSE, source |-> "Guardian", error |-> "fetch failed"]

\* A running group's promise settles with its list of results.
GroupDone(r, g, results) ==
  /\ run[r].pc = "fetching"
  /\ run[r].status[g] = "running"
  /\ run' = [run EXCEPT ![r] =
               [@ EXCEPT !.status[g] = "done", !.results[g] = results]]
  /\ UNCHANGED <<store, clock, writeCount, metricsLatest, metricsState,
                 gorseCalls, NEWSAPI_KEY, GUARDIAN_API_KEY, overlapped, notCollect>>

\* fetchPoetryContent(): its feeds one after the other, one result per feed.
FinishPoetry(r) ==
  \E o1 \in Outcomes(1), o2 \in Outcomes(2) :
    GroupDone(r, "poetry", <<fetchRSS(PoetrySources[1], o1),
                             fetchRSS(PoetrySources[2], o2)>>)

\* The two requests are made only when the key is set.
FinishNewsAPI(r) ==
  \E o1 \in Outcomes(3), o2 \in Outcomes(4) :
    /\ ~NEWSAPI_KEY => (~o1.ok /\ ~o2.ok)
    /\ GroupDone(r, "newsapi", <<fetchNewsAPI(o1, o2)>>)

FinishGuardian(r) ==
  \E o \in GuardianOutcomes :
    /\ ~GUARDIAN_API_KEY => ~o.ok
    /\ GroupDone(r, "guardian", <<fetchGuardianAPI(o)>>)

RECURSIVE CollectItems(_)
\* allItems.push(...result.items) for every successful result, in order
CollectItems(rs) ==
  IF rs = <<>> THEN <<>>
  ELSE (IF Head(rs).success THEN Head(rs).items ELSE <<>>) \o CollectItems(Tail(rs))

RECURSIVE CollectErrors_All(_)
\* an entry is pushed for every result, successful or not
CollectErrors_All(rs) ==
  IF rs = <<>> THEN <<>>
  ELSE <<[source |-> Head(rs).source,
          error |-> IF Head(rs).error = "none" THEN "Unknown error"
                    ELSE Head(rs).error]>> \o CollectErrors_All(Tail(rs))

RECURSIVE CollectErrors(_)
\* errors.push({source, error: result.error || 'Unknown error'}) for every
\* result that is not successful, in order
CollectErrors(rs) ==
  IF rs = <<>> THEN <<>>
  ELSE (IF Head(rs).success THEN <<>>
        ELSE <<[source |-> Head(rs).source,
                error |-> IF Head(rs).error = "none" THEN "Unknown error"
                          ELSE Head(rs).error]>>) \o CollectErrors(Tail(rs))

\* the cap test off by one: the loop stops one record too late
LoopPc_OffByOne(i, newItemsAdded, allItems) ==
  IF i > Len(allItems) \/ newItemsAdded > MAX_NEW_ITEMS_PER_RUN
  THEN "sync" ELSE "get"

\* Loop head of "for (const item of allItems)": past the last item, or at
\* the cap, the loop ends and the ranker sync follows.
LoopPc(i, newItemsAdded, allItems) ==
  IF i > Len(allItems) \/ newItemsAdded >= MAX_NEW_ITEMS_PER_RUN
  THEN "sync" ELSE "get"

\* The results of the selected groups in the order of activeFetchers, as
\* Promise.all returns them, flattened.
FlatResults(r) ==
  FlattenSeq([k \in 1..Len(run[r].active) |-> run[r].results[run[r].active[k]]])

\* if (dry) { ... return {status: 'dry-run', ...} }
DryReturn_Ignored(rr) == FALSE

DryReturn(rr) == rr.dry

\* the first promise to settle resolves the whole
AllSettled_First(r) ==
  \E k \in 1..Len(run[r].active) : run[r].status[run[r].active[k]] = "done"

\* await Promise.all(fetchPromises): every selected group's promise settled
AllSettled(r) ==
  \A k \in 1..Len(run[r].active) : run[r].status[run[r].active[k]] = "done"

\* Promise.all resolves; flatten, aggregate, and either return the dry-run
\* report or enter the persist loop.
Aggregate(r) ==
  /\ run[r].pc = "fetching"
  /\ AllSettled(r)
  /\ LET flat == FlatResults(r)
         allItems == CollectItems(flat)
         succeeded == SelectSeq(flat, LAMBDA x : x.success)
     IN run' = [run EXCEPT ![r] =
                  [@ EXCEPT !.allItems = allItems,
                            !.errors = CollectErrors(flat),
                            !.feedsAttempted = Len(flat),
                            !.feedsSucceeded = Len(succeeded),
                            !.pc = IF DryReturn(run[r]) THEN "done"
                                   ELSE LoopPc(1, 0, allItems),
                            !.ret = IF DryReturn(run[r]) THEN "dry-run"
                                    ELSE "none"]]
  /\ UNCHANGED <<store, clock, writeCount, metricsLatest, metricsState,
                 gorseCalls, NEWSAPI_KEY, GUARDIAN_API_KEY, overlapped, notCollect>>

\* Skip to the next item of the persist loop.
NextItem(rr, newItemsAdded) ==
  [rr EXCEPT !.i = rr.i + 1, !.newItemsAdded = newItemsAdded,
             !.pc = LoopPc(rr.i + 1, newItemsAdded, rr.allItems)]

\* an error of get() or set() leaves the function
OnWriteError_Rethrow(rr) ==
  [rr EXCEPT !.pc = "raised", !.ret = "raised", !.raisedAt = "persist"]

\* catch (error) { console.error(...) } inside the loop: the item is skipped
OnWriteError(rr) ==
  [NextItem(rr, rr.newItemsAdded) EXCEPT !.ioFailedAt = @ \cup {rr.i}]

\* the existence test always answers "absent"
DocExists_Never(id) == FALSE

\* doc.exists, at the time get() reads
DocExists(id) == store[id].exists

\* await docRef.get(): the read throws (caught, item skipped), finds the
\* record (counted as existing) or finds nothing (the write follows).
GetDoc(r) ==
  /\ run[r].pc = "get"
  /\ LET rr == run[r]
         item == rr.allItems[rr.i]
     IN \E ok \in BOOLEAN :
          run' = [run EXCEPT ![r] =
                    IF ~ok THEN OnWriteError(rr)
                    ELSE IF DocExists(item.docId)
                         THEN [NextItem(rr, rr.newItemsAdded)
                                 EXCEPT !.existingItems = @ + 1]
                         ELSE [rr EXCEPT !.pc = "set"]]
  /\ UNCHANGED <<store, clock, writeCount, metricsLatest, metricsState,
                 gorseCalls, NEWSAPI_KEY, GUARDIAN_API_KEY, overlapped, notCollect>>

\* await docRef.set({...item.data, createdAt: new Date()}): the record is
\* written and counted, or the write throws (caught, item skipped). The
\* Firestore client throws on a Date that is not a valid time (it has no
\* Timestamp), so a record with an Invalid Date publishedAt is never written.
SetDoc(r) ==
  /\ run[r].pc = "set"
  /\ LET rr == run[r]
         item == rr.allItems[rr.i]
     IN \E ok \in BOOLEAN :
          IF ok /\ item.dateOk
          THEN /\ store' = [store EXCEPT ![item.docId] =
                              [exists |-> TRUE, createdAt |-> clock]]
               /\ clock' = clock + 1
               /\ writeCount' = [writeCount EXCEPT ![item.docId] = @ + 1]
               /\ run' = [run EXCEPT ![r] =
                            [NextItem(rr, rr.newItemsAdded + 1)
                               EXCEPT !.itemsToSync = Append(@, item),
                                      !.written = Append(@, item.docId)]]
          ELSE /\ run' = [run EXCEPT ![r] = OnWriteError(rr)]
               /\ UNCHANGED <<store, clock, writeCount>>
  /\ UNCHANGED <<metricsLatest, metricsState, gorseCalls, NEWSAPI_KEY,
                 GUARDIAN_API_KEY, overlapped, notCollect>>

\* item.data.publishedAt.toISOString() throws a RangeError on an Invalid Date
ToISOStringThrows(items) == \E k \in 1..Len(items) : ~items[k].dateOk

\* the batch built from everything that was fetched
Batch_AllItems(rr) == rr.allItems

\* itemsToSync: the items pushed after their set() resolved
Batch(rr) == rr.itemsToSync

\* the count is taken before the request is known to have succeeded
SyncedCount_Early(ok, items) == Len(items)

\* syncedToGorse = gorseItems.length, reached only when gorseRequest resolved
SyncedCount(ok, items) == IF ok THEN Len(items) ELSE 0

\* "Sync to Gorse": nothing to sync; or the batch is built and submitted in
\* one gorseRequest call inside try/catch. An exception while the batch is
\* built is caught by the same handler before any request is made.
SyncToGorse(r) ==
  /\ run[r].pc = "sync"
  /\ LET items == Batch(run[r]) IN
     IF items = <<>> \/ ToISOStringThrows(items)
     THEN /\ run' = [run EXCEPT ![r] = [@ EXCEPT !.pc = "count"]]
          /\ UNCHANGED gorseCalls
     ELSE \E ok \in BOOLEAN :
            /\ gorseCalls' = Append(gorseCalls,
                 [run |-> r, ok |-> ok,
                  items |-> [k \in 1..Len(items) |-> items[k].docId]])
            /\ run' = [run EXCEPT ![r] =
                         [@ EXCEPT !.pc = "count",
                                   !.syncedToGorse = SyncedCount(ok, items)]]
  /\ UNCHANGED <<store, clock, writeCount, metricsLatest, metricsState,
                 NEWSAPI_KEY, GUARDIAN_API_KEY, overlapped, notCollect>>

\* await db.collection('content').count().get(), outside any try/catch
CountContent(r) ==
  /\ run[r].pc = "count"
  /\ \E ok \in BOOLEAN :
       run' = [run EXCEPT ![r] =
                 IF ok THEN [@ EXCEPT !.pc = "metrics",
                                      !.totalItemsInFirestore = Cardinality(StoredIds)]
                 ELSE [@ EXCEPT !.pc = "raised", !.ret = "raised",
                                !.raisedAt = "count"]]
  /\ UNCHANGED <<store, clock, writeCount, metricsLatest, metricsState,
                 gorseCalls, NEWSAPI_KEY, GUARDIAN_API_KEY, overlapped, notCollect>>

\* const metrics = {...}, without its timestamp and duration
Metrics(rr) ==
  [exists |-> TRUE,
   feedsAttempted |-> rr.feedsAttempted, feedsSucceeded |-> rr.feedsSucceeded,
   newItemsAdded |-> rr.newItemsAdded,
   totalItemsInFirestore |-> rr.totalItemsInFirestore,
   syncedToGorse |-> rr.syncedToGorse, errors |-> rr.errors]

\* await db.collection('collection_metrics').doc('latest').set(metrics)
StoreMetricsLatest(r) ==
  /\ run[r].pc = "metrics"
  /\ \E ok \in BOOLEAN :
       IF ok
       THEN /\ metricsLatest' = Metrics(run[r])
            /\ run' = [run EXCEPT ![r] = [@ EXCEPT !.pc = "state"]]
       ELSE /\ run' = [run EXCEPT ![r] = [@ EXCEPT !.pc = "raised", !.ret = "raised",
                                                   !.raisedAt = "metrics"]]
            /\ UNCHANGED metricsLatest
  /\ UNCHANGED <<store, clock, writeCount, metricsState, gorseCalls,
                 NEWSAPI_KEY, GUARDIAN_API_KEY, overlapped, notCollect>>

\* await db.collection('last_collection_run').doc('state').set(metrics),
\* then return {status: 'complete', ...}
StoreRunState(r) ==
  /\ run[r].pc = "state"
  /\ \E ok \in BOOLEAN :
       IF ok
       THEN /\ metricsState' = Metrics(run[r])
            /\ run' = [run EXCEPT ![r] = [@ EXCEPT !.pc = "done", !.ret = "complete"]]
       ELSE /\ run' = [run EXCEPT ![r] = [@ EXCEPT !.pc = "raised", !.ret = "raised",
                                                   !.raisedAt = "state"]]
            /\ UNCHANGED metricsState
  /\ UNCHANGED <<store, clock, writeCount, metricsLatest, gorseCalls,
                 NEWSAPI_KEY, GUARDIAN_API_KEY, overlapped, notCollect>>

\* The steps of an invocation after its start.
Step(r) ==
  \/ \E g \in FetcherNames : StartGroup(r, g)
  \/ FinishPoetry(r)
  \/ FinishNewsAPI(r)
  \/ FinishGuardian(r)
  \/ Aggregate(r)
  \/ GetDoc(r)
  \/ SetDoc(r)
  \/ SyncToGorse(r)
  \/ CountContent(r)
  \/ StoreMetricsLatest(r)
  \/ StoreRunState(r)

\* One invocation (POST /collect or the scheduled run), any selection.
Next ==
  \/ StartRun(1, AllSelections)
  \/ Step(1)

Spec == Init /\ [][Next]_vars

\* Two invocations of the Guardian group, which may overlap: the scheduled
\* run and POST /collect.
NextTwo ==
  \E r \in Runs :
    \/ StartRun(r, GuardianOnly)
    \/ StartGroup(r, "guardian")
    \/ FinishGuardian(r)
    \/ Aggregate(r)
    \/ GetDoc(r)
    \/ SetDoc(r)
    \/ SyncToGorse(r)
    \/ CountContent(r)
    \/ StoreMetricsLatest(r)
    \/ StoreRunState(r)

SpecTwo == Init /\ [][NextTwo]_vars

(***************************************************************************)
(* RateLimiter                                                             *)
(***************************************************************************)
RECURSIVE Evict(_, _)
\* while (queue.length && queue[0] < now - 1000) queue.shift()
Evict(queue, t) ==
  IF queue # <<>> /\ Head(queue) < t - 1000 THEN Evict(Tail(queue), t) ELSE queue

\* the capacity test off by one: a full queue still admits
AtLimit_OffByOne(queue) == Len(queue) > maxPerSecond

\* if (queue.length >= this.maxPerSecond)
AtLimit(queue) == Len(queue) >= maxPerSecond

\* the delay without its margin of 10 ms
Delay_NoMargin(queue, t) == 1000 - (t - Head(queue))

\* const delay = 1000 - (now - oldestTimestamp) + 10
Delay(queue, t) == 1000 - (t - Head(queue)) + 10

\* One pass through the body of throttle(host) at the current time, which has
\* no suspension point before its await: evict, then either start the timer
\* or record the timestamp and return.
ThrottleBody(c, h) ==
  LET queue == Evict(hostQueues[h], now) IN
  IF AtLimit(queue)
  THEN /\ hostQueues' = [hostQueues EXCEPT ![h] = queue]
       /\ call' = [call EXCEPT ![c] = [pc |-> "waiting", host |-> h,
                                       wakeAt |-> now + Delay(queue, now),
                                       waited |-> TRUE]]
       /\ UNCHANGED admitted
  ELSE /\ hostQueues' = [hostQueues EXCEPT ![h] = Append(queue, now)]
       /\ call' = [call EXCEPT ![c] = [@ EXCEPT !.pc = "done", !.host = h,
                                                !.wakeAt = 0]]
       /\ admitted' = [admitted EXCEPT ![h] = Append(@, now)]

\* await rateLimiter.throttle(host), first entry
Throttle(c, h) ==
  /\ call[c].pc = "idle"
  /\ \A d \in Calls : d < c => call[d].pc # "idle"
  /\ ThrottleBody(c, h)
  /\ UNCHANGED <<now, notRL>>

\* the setTimeout(resolve, delay) timer has fired: return this.throttle(host)
ThrottleRetry(c) ==
  /\ call[c].pc = "waiting"
  /\ now >= call[c].wakeAt
  /\ ThrottleBody(c, call[c].host)
  /\ UNCHANGED <<now, notRL>>

\* Time passes while some call is still to come or waiting: to the instant
\* a pending timer is due, or, up to MaxTime, by some longer stretch.
Tick ==
  /\ \E c \in Calls : call[c].pc # "done"
  /\ \E t \in {x \in {now + d : d \in Deltas} : x <= MaxTime} \cup
               {call[c].wakeAt : c \in {x \in Calls : call[x].pc = "waiting"}} :
       /\ t > now
       /\ now' = t
  /\ UNCHANGED <<hostQueues, call, admitted, notRL>>

\* The collection orchestrator, not running.
CollectIdle ==
  /\ store = [id \in Ids |-> NoDoc]
  /\ clock = 1
  /\ writeCount = [id \in Ids |-> 0]
  /\ metricsLatest = NoMetrics
  /\ metricsState = NoMetrics
  /\ gorseCalls = <<>>
  /\ NEWSAPI_KEY = TRUE
  /\ GUARDIAN_API_KEY = TRUE
  /\ run = [r \in Runs |-> IdleRun]
  /\ overlapped = FALSE

InitRL ==
  /\ RateLimiterInit /\ CollectIdle /\ FetchInit /\ PureInit /\ ResolverInit
  /\ RecInit /\ IngestIdle

NextRL ==
  \/ \E c \in Calls, h \in Hosts : Throttle(c, h)
  \/ \E c \in Calls : ThrottleRetry(c)
  \/ Tick

SpecRL == InitRL /\ [][NextRL]_vars

\* The event loop runs the callback of a timer that is due, and time passes.
SpecRLFair ==
  SpecRL /\ WF_vars(Tick) /\ \A c \in Calls : WF_vars(ThrottleRetry(c))

\* the timestamps a host's calls recorded within the second that ends at t
InWindow(h, t) ==
  {j \in 1..Len(admitted[h]) : t - 1000 < admitted[h][j] /\ admitted[h][j] <= t}

\* C1: for every host, the calls admitted (returned, timestamp recorded)
\* within any rolling one-second window never exceed maxPerSecond.
C1_RateCap ==
  \A h \in Hosts : \A i \in 1..Len(admitted[h]) :
    Cardinality(InWindow(h, admitted[h][i])) <= maxPerSecond

\* C1 witness: a host has admitted more calls than maxPerSecond, one of them
\* after having been made to wait.
C1_Witness ==
  \E c \in Calls :
    /\ call[c].pc = "done" /\ call[c].waited
    /\ Len(admitted[call[c].host]) > maxPerSecond


\* the timestamps of the host's queue that lie within the last second
InLastSecond(h) ==
  {k \in 1..Len(hostQueues[h]) : hostQueues[h][k] >= now - 1000}
\* the oldest of them
Oldest(h) ==
  hostQueues[h][CHOOSE k \in InLastSecond(h) : \A j \in InLastSecond(h) : k <= j]
\* the call passes through the body of throttle in this step
Checks(c) == call[c].pc \in {"idle", "waiting"} /\ call'[c] # call[c]

\* C30: a pass through throttle(host) that finds fewer than maxPerSecond
\* timestamps in the last second returns at once; one that finds the host at
\* capacity sets a timer for 10 ms after the oldest of them leaves the
\* window, and the next pass is made only when that timer is due; and every
\* call that waits returns in the end.
C30_Progress ==
  /\ [][\A c \in Calls : Checks(c) =>
          LET h == call'[c].host IN
          /\ call[c].pc = "waiting" => (h = call[c].host /\ now >= call[c].wakeAt)
          /\ IF Cardinality(InLastSecond(h)) < maxPerSecond
             THEN /\ call'[c].pc = "done" /\ now' = now
                  /\ admitted'[h] = Append(admitted[h], now)
             ELSE /\ call'[c].pc = "waiting"
                  /\ call'[c].wakeAt =
                       Oldest(h) + 1000 + 10
                  /\ admitted' = admitted]_vars
  /\ \A c \in Calls : (call[c].pc = "waiting") ~> (call[c].pc = "done")

\* C30 witness: on one host a call has returned without waiting and a later
\* one has returned after waiting, not before its timer was due.
C30_Witness ==
  \E c, d \in Calls :
    /\ call[c].pc = "done" /\ ~call[c].waited
    /\ call[d].pc = "done" /\ call[d].waited /\ call[d].host = call[c].host
    /\ now >= admitted[call[d].host][1] + 1000 + 10

(***************************************************************************)
(* Properties of collectAllContent                                         *)
(***************************************************************************)
Live(r) == run[r].pc # "idle" /\ ~run[r].dry
\* the invocation is past its persist loop
PastPersist(r) == run[r].pc \in {"sync", "count", "metrics", "state", "done", "raised"}
\* the invocation is past its ranker sync
PastSync(r) == run[r].pc \in {"count", "metrics", "state", "done", "raised"}
SeqToSet(q) == {q[k] : k \in 1..Len(q)}

\* C2: across any interleaving of collection runs, once a content id exists in
\* storage its record (createdAt included) is never written again.
C2_CreatedOnce ==
  [][\A id \in Ids : store[id].exists => store'[id] = store[id]]_vars

\* C3: at every moment of a run, at most FETCH_CONCURRENCY fetcher groups
\* have been started and have not yet finished.
C3_PoolBound ==
  \A r \in Runs : Cardinality(Running(r)) <= FETCH_CONCURRENCY

\* C3 witness: the pool is full while a selected group still waits in the queue.
C3_Witness ==
  /\ Cardinality(Running(1)) = FETCH_CONCURRENCY
  /\ \E g \in FetcherNames : run[1].status[g] = "queued"

\* number of sources configured in the groups an invocation selected
ConfiguredSources(r) ==
  Cardinality(UNION {GroupSources(g) : g \in SeqToSet(run[r].active)})

RECURSIVE SumLen(_)
SumLen(rs) == IF rs = <<>> THEN 0 ELSE Len(Head(rs).items) + SumLen(Tail(rs))

\* C7: a dry run writes no content record, no metrics record and submits
\* nothing to the ranker, whatever the fetchers return; storage and ranker
\* are as they were before the call, and feedsAttempted, feedsSucceeded and
\* itemsFound are reported.
C7_DryRun ==
  /\ [][run'[1].dry => /\ store' = store
                        /\ writeCount' = writeCount
                        /\ metricsLatest' = metricsLatest
                        /\ metricsState' = metricsState
                        /\ gorseCalls' = gorseCalls]_vars
  /\ [](run[1].dry /\ run[1].pc \notin {"idle", "fetching"} =>
          /\ run[1].ret = "dry-run"
          /\ run[1].pc = "done"
          /\ store = run[1].storeAtStart
          /\ gorseCalls = <<>>
          /\ ~metricsLatest.exists /\ ~metricsState.exists
          /\ run[1].feedsAttempted = ConfiguredSources(1)
          /\ run[1].feedsSucceeded =
               Cardinality({k \in 1..Len(FlatResults(1)) : FlatResults(1)[k].success})
          /\ Len(run[1].allItems) =
               SumLen(SelectSeq(FlatResults(1), LAMBDA x : x.success)))

\* C7 witness: a dry run has returned after finding items and a failing source.
C7_Witness ==
  /\ run[1].dry
  /\ run[1].ret = "dry-run"
  /\ Len(run[1].allItems) > 0
  /\ run[1].errors # <<>>

\* the results an invocation aggregated that report success / failure
Succeeded(r) == SelectSeq(FlatResults(r), LAMBDA x : x.success)
Failed(r) == SelectSeq(FlatResults(r), LAMBDA x : ~x.success)
\* ids delivered by the succeeding sources of an invocation
FetchedIds(r) == {run[r].allItems[k].docId : k \in 1..Len(run[r].allItems)}
FetchedBySucceeding(r) ==
  UNION {{x.items[k].docId : k \in 1..Len(x.items)} : x \in SeqToSet(Succeeded(r))}
\* the error list has one entry per failing source, in order, and no other
ErrorsNameFailing(r) ==
  /\ Len(run[r].errors) = Len(Failed(r))
  /\ \A k \in 1..Len(Failed(r)) : run[r].errors[k].source = Failed(r)[k].source

\* C4 as stated: a live run that has completed has persisted the items of
\* every succeeding source, its error list names exactly the failing sources
\* and feedsAttempted is the number of configured sources.
C4_Original ==
  Live(1) /\ run[1].ret = "complete" =>
    /\ \A id \in FetchedBySucceeding(1) : store[id].exists
    /\ ErrorsNameFailing(1)
    /\ run[1].feedsAttempted = ConfiguredSources(1)

\* C4 amended: a live run gets past fetching, persisting and syncing whatever
\* subset of its sources fails (it can only raise in its final count/metrics
\* step); every item of a succeeding source is then in storage, except the
\* items whose read or write failed and the items left unprocessed once
\* MAX_NEW_ITEMS_PER_RUN records were written; the error list has exactly one
\* entry per source whose result is success:false; feedsAttempted == N.
C4_PartialFailure ==
  /\ Live(1) /\ run[1].pc = "raised" => run[1].raisedAt \in {"count", "metrics", "state"}
  /\ Live(1) /\ run[1].pc # "fetching" =>
       /\ ErrorsNameFailing(1)
       /\ run[1].feedsAttempted = ConfiguredSources(1)
       /\ FetchedIds(1) = FetchedBySucceeding(1)
  /\ Live(1) /\ PastPersist(1) =>
       \A k \in 1..Len(run[1].allItems) :
         \/ store[run[1].allItems[k].docId].exists
         \/ k \in run[1].ioFailedAt
         \/ (k >= run[1].i /\ run[1].newItemsAdded >= MAX_NEW_ITEMS_PER_RUN)

\* C4 witness: a live run has completed although a source failed; it wrote
\* the item of a succeeding source.
C4_Witness ==
  /\ Live(1) /\ run[1].ret = "complete"
  /\ Len(Failed(1)) >= 1 /\ Len(Succeeded(1)) >= 2
  /\ Len(run[1].written) >= 1

\* ids of the fetched items that were not in storage when the run started
FreshIds(r) == {id \in FetchedIds(r) : ~run[r].storeAtStart[id].exists}

SecondRunOf(a, b) ==
  /\ a # b /\ a \in run[b].after /\ ~overlapped
  /\ Live(a) /\ Live(b)
  /\ run[b].pc # "fetching"
  /\ FlatResults(a) = FlatResults(b)

\* C5 as stated: the second of two live runs in sequence over sources that
\* return the same items adds no record and leaves storage as it found it.
C5_Original ==
  \A a \in Runs, b \in Runs :
    SecondRunOf(a, b) =>
      /\ run[b].newItemsAdded = 0
      /\ store = run[b].storeAtStart

\* C5 amended: the same, provided every id the sources return is in storage
\* when the second run starts (the first run did not stop at
\* MAX_NEW_ITEMS_PER_RUN and none of its reads or writes failed).
C5_Idempotent ==
  \A a \in Runs, b \in Runs :
    SecondRunOf(a, b) /\ (\A id \in FetchedIds(a) : run[b].storeAtStart[id].exists) =>
      /\ run[b].newItemsAdded = 0
      /\ run[b].written = <<>>
      /\ store = run[b].storeAtStart

\* C5 witness: the second run has completed and skipped, as existing, a
\* record that the first run wrote.
C5_Witness ==
  \E a \in Runs, b \in Runs :
    /\ SecondRunOf(a, b)
    /\ \A id \in FetchedIds(a) : run[b].storeAtStart[id].exists
    /\ Len(run[a].written) >= 1
    /\ run[b].ret = "complete"
    /\ run[b].existingItems >= 1

\* the bulk submissions an invocation made to the ranker
Submissions(r) == SelectSeq(gorseCalls, LAMBDA x : x.run = r)

\* C8: a live run that wrote k >= 1 records makes exactly one bulk
\* submission, of exactly the k records it wrote; a run that wrote none makes
\* no submission.
C8_SyncBatch ==
  /\ Live(1) /\ ~PastSync(1) => Submissions(1) = <<>>
  /\ Live(1) /\ PastSync(1) =>
       IF run[1].written = <<>>
       THEN Submissions(1) = <<>>
       ELSE /\ Len(Submissions(1)) = 1
            /\ Submissions(1)[1].items = run[1].written

\* C8 witness: a run has submitted its batch after an item was skipped as
\* existing, an item failed to be written and a source failed.
C8_Witness ==
  /\ Live(1) /\ PastSync(1)
  /\ Len(Submissions(1)) = 1
  /\ Len(run[1].written) >= 1
  /\ Len(run[1].written) < Len(run[1].allItems)
  /\ run[1].existingItems >= 1
  /\ run[1].ioFailedAt # {}

SyncFailed(r) == \E k \in 1..Len(gorseCalls) : gorseCalls[k].run = r /\ ~gorseCalls[k].ok

\* C9: when the bulk submission fails, the records written in the run stay in
\* storage, the run goes on to its count/metrics step and records its metrics
\* (it is cut short only if that step itself fails), and it reports
\* syncedToGorse = 0 with newItemsAdded unchanged.
C9_SyncFailure ==
  SyncFailed(1) =>
    /\ \A id \in SeqToSet(run[1].written) : store[id].exists
    /\ run[1].syncedToGorse = 0
    /\ run[1].newItemsAdded = Len(run[1].written)
    /\ PastSync(1)
    /\ (run[1].pc = "raised" => run[1].raisedAt \in {"count", "metrics", "state"})
    /\ (run[1].pc \in {"state", "done"} =>
          /\ metricsLatest.exists
          /\ metricsLatest.syncedToGorse = 0
          /\ metricsLatest.newItemsAdded = Len(run[1].written))
    /\ (run[1].pc = "done" =>
          /\ run[1].ret = "complete"
          /\ metricsState = metricsLatest)

\* C9 witness: a run whose submission failed has completed.
C9_Witness ==
  /\ SyncFailed(1)
  /\ run[1].ret = "complete"
  /\ Len(run[1].written) >= 1

\* C10: a live run never raises because of a source failure, an item's
\* read/write failure or a sync failure: it raises only in its final
\* count/metrics step; a run that returns has written its metrics record,
\* whose total is the stored count read after persistence.
C10_RunFailure ==
  Live(1) =>
    /\ (run[1].pc = "raised" =>
          /\ run[1].raisedAt \in {"count", "metrics", "state"}
          /\ run[1].ret = "raised")
    /\ (run[1].pc = "done" =>
          /\ run[1].ret = "complete"
          /\ metricsLatest = Metrics(run[1])
          /\ metricsState = Metrics(run[1])
          /\ metricsLatest.totalItemsInFirestore = Cardinality(StoredIds))
    /\ (run[1].pc = "raised" /\ run[1].raisedAt = "state" =>
          metricsLatest = Metrics(run[1]))

\* C10 witness: a run has completed and written its metrics although a
\* source failed, a write failed and the sync failed.
C10_Witness ==
  /\ Live(1) /\ run[1].ret = "complete"
  /\ run[1].errors # <<>>
  /\ run[1].ioFailedAt # {}
  /\ SyncFailed(1)
  /\ metricsState.exists



\* the selected groups of the invocation that have not finished
Unfinished(r) ==
  {g \in FetcherNames : run[r].status[g] \in {"queued", "running"}}

\* C29: in a live run a content record is written only when every selected
\* group has finished and before the run's ranker submission; the submission
\* is made after the persist loop has ended; and the metrics records are
\* written only after the submission has succeeded or failed (when records
\* were written there has been one).
C29_PhaseOrder ==
  [][/\ (\E id \in Ids : writeCount'[id] # writeCount[id]) =>
          /\ Unfinished(1) = {}
          /\ Submissions(1) = <<>> /\ Submissions(1)' = <<>>
     /\ gorseCalls' # gorseCalls =>
          /\ run[1].pc = "sync" /\ PastSync(1)'
          /\ Len(gorseCalls') = Len(gorseCalls) + 1
     /\ (metricsLatest' # metricsLatest \/ metricsState' # metricsState) =>
          /\ PastSync(1)
          /\ run[1].written # <<>> => Submissions(1) # <<>>]_vars

\* C29 witness: a live run with two groups has written two records,
\* submitted them and stored its metrics.
C29_Witness ==
  /\ Live(1) /\ Len(run[1].active) >= 2
  /\ Len(run[1].written) = 2
  /\ Len(Submissions(1)) = 1
  /\ metricsLatest.exists /\ metricsState.exists

(***************************************************************************)
(* Query-API fetchers and retryWithBackoff                                 *)
(***************************************************************************)
ApiFetchers == {"NewsAPI", "Guardian", "arXiv"}

\* the host each fetcher passes to rateLimiter.throttle
HostOf(f) ==
  CASE f = "NewsAPI" -> "newsapi.org"
    [] f = "Guardian" -> "content.guardianapis.com"
    [] f = "arXiv" -> "export.arxiv.org"

\* requests one fetcher call makes: const topics = ['science', 'technology']
\* for NewsAPI, one request for the others
Topics(f) == IF f = "NewsAPI" THEN 2 ELSE 1

\* the key test skipped: every fetcher goes on to its request
HasKey_Always(f) == TRUE

\* if (!NEWSAPI_KEY), if (!GUARDIAN_API_KEY); fetchArXiv needs no key
HasKey(f) ==
  CASE f = "NewsAPI" -> NEWSAPI_KEY
    [] f = "Guardian" -> GUARDIAN_API_KEY
    [] f = "arXiv" -> TRUE

\* What an HTTP request is answered with: a status, or 0 when fetch() rejects
\* (timeout, network error) and there is no response.
HttpStatuses == {0, 200, 404, 429, 503}
HttpMessage(s) ==
  CASE s = 0 -> "request failed"
    [] s = 404 -> "HTTP 404"
    [] s = 429 -> "HTTP 429"
    [] s = 503 -> "HTTP 503"
    [] OTHER -> "HTTP error"

\* the articles of a 2xx answer
Bodies == {<<>>, <<Item(1, TRUE)>>}

\* The closure the fetchers hand to retryWithBackoff:
\*   const res = await fetch(url, ...);
\*   if (!res.ok) throw new Error(`HTTP ${res.status}`);
\*   return res.json();
\* The Error it throws has a message and no status property.
FetchFn(s, body) ==
  IF s \in 200..299
  THEN [threw |-> FALSE, error |-> NoError, value |-> body]
  ELSE [threw |-> TRUE, value |-> <<>>,
        error |-> [status |-> 0, responseStatus |-> 0, message |-> HttpMessage(s)]]

\* What an arbitrary fn can do when retryWithBackoff is called directly:
\* return a value, or throw an error with or without a status.
FnErrors ==
  {[status |-> 0, responseStatus |-> 0, message |-> "failed"],
   [status |-> 404, responseStatus |-> 500, message |-> "not found"],
   [status |-> 429, responseStatus |-> 0, message |-> "too many requests"],
   [status |-> 500, responseStatus |-> 0, message |-> "server error"],
   [status |-> 0, responseStatus |-> 599, message |-> "server error"],
   [status |-> 600, responseStatus |-> 0, message |-> "unknown status"]}
FnOutcomes ==
  {[threw |-> FALSE, error |-> NoError, value |-> b] : b \in Bodies} \cup
  {[threw |-> TRUE, error |-> e, value |-> <<>>] : e \in FnErrors}

\* the maxRetries argument of a direct call (3 when omitted)
MaxRetriesArgs == {1, 2, 3}

\* const status = error.status || error.response?.status
StatusOf(error) ==
  IF error.status # 0 THEN error.status ELSE error.responseStatus

\* status === 429 || (status >= 500 && status < 600)
Retryable(status) == status = 429 \/ (status >= 500 /\ status < 600)

\* the delay growing by a second per attempt: 1s, 2s, 3s
BackoffDelay_Linear(i) == (i + 1) * 1000

\* const delay = Math.pow(2, i) * 1000
BackoffDelay(i) == (2 ^ i) * 1000

\* What the caller does when its retryWithBackoff call settles with outcome o
\* (how: "value", "rethrown" or "exhausted"): a direct caller gets the value
\* or the error; Guardian and arXiv return from their try or their catch;
\* NewsAPI logs a topic's error and goes on to the next topic.
Settle(c, how, o) ==
  LET d == [c EXCEPT !.retryOutcome = how] IN
  CASE c.caller = "direct" ->
         [d EXCEPT !.pc = "returned", !.threw = o.threw, !.thrown = o.error,
                   !.result = [NoResult EXCEPT !.success = ~o.threw,
                                               !.items = o.value]]
    [] c.caller = "NewsAPI" ->
         LET items == c.allItems \o o.value IN
         IF c.topic < Topics("NewsAPI")
         THEN [d EXCEPT !.pc = "throttle", !.topic = @ + 1, !.allItems = items]
         ELSE [d EXCEPT !.pc = "returned", !.allItems = items,
                        !.result = [success |-> Len(items) > 0,
                                    source |-> "NewsAPI", error |-> "none",
                                    items |-> items]]
    [] OTHER ->
         [d EXCEPT !.pc = "returned",
                   !.result = IF o.threw
                              THEN [success |-> FALSE, source |-> c.caller,
                                    error |-> o.error.message, items |-> <<>>]
                              ELSE [success |-> TRUE, source |-> c.caller,
                                    error |-> "none", items |-> o.value]]

\* fetchNewsAPI() / fetchGuardianAPI() / fetchArXiv(): entry and key test
EnterFetcher(f) ==
  /\ fc.pc = "idle"
  /\ fc' = IF HasKey(f)
           THEN [fc EXCEPT !.pc = "throttle", !.caller = f, !.topic = 1]
           ELSE [fc EXCEPT !.pc = "returned", !.caller = f,
                           !.result = [success |-> FALSE, source |-> f,
                                       error |-> "API key not configured",
                                       items |-> <<>>]]
  /\ UNCHANGED <<rlVars, notFetch>>

\* await rateLimiter.throttle(host) returns, which it does at a moment when
\* the host's queue is below the limit and after recording the timestamp;
\* retryWithBackoff(fn) is entered.
AwaitThrottle ==
  /\ fc.pc = "throttle"
  /\ LET h == HostOf(fc.caller)
         queue == Evict(hostQueues[h], now)
     IN /\ ~AtLimit(queue)
        /\ hostQueues' = [hostQueues EXCEPT ![h] = Append(queue, now)]
        /\ admitted' = [admitted EXCEPT ![h] = Append(@, now)]
  /\ fc' = [fc EXCEPT !.pc = "attempt", !.i = 0, !.maxRetries = 3,
                      !.invoked = <<>>, !.delays = <<>>,
                      !.retryOutcome = "none"]
  /\ UNCHANGED <<now, call, notFetch>>

\* retryWithBackoff(fn, maxRetries) called with an arbitrary fn
CallRetry(m) ==
  /\ fc.pc = "idle"
  /\ fc' = [fc EXCEPT !.pc = "attempt", !.caller = "direct", !.i = 0,
                      !.maxRetries = m]
  /\ UNCHANGED <<rlVars, notFetch>>

\* One pass of the loop body: try { return await fn() } catch (error) {...}
\* up to the await of the backoff timer.
RetryBody(c, o) ==
  IF ~o.threw THEN Settle(c, "value", o)
  ELSE IF Retryable(StatusOf(o.error))
       THEN [c EXCEPT !.pc = "backoff",
                      !.delays = Append(@, BackoffDelay(c.i))]
       ELSE Settle(c, "rethrown", o)

\* fn is invoked; for a fetcher that is one HTTP request.
InvokeFn ==
  /\ fc.pc = "attempt"
  /\ \/ /\ fc.caller = "direct"
        /\ \E o \in FnOutcomes :
             fc' = RetryBody([fc EXCEPT !.invoked =
                                Append(@, [at |-> now, outcome |-> o])], o)
     \/ /\ fc.caller \in ApiFetchers
        /\ \E s \in HttpStatuses, body \in Bodies :
             LET o == FetchFn(s, body) IN
             fc' = RetryBody([fc EXCEPT !.invoked =
                                Append(@, [at |-> now, outcome |-> o]),
                                        !.responses = Append(@, s)], o)
  /\ UNCHANGED <<rlVars, notFetch>>

\* The setTimeout(resolve, delay) timer fires; continue: i++ and the loop
\* test, after the loop throw new Error('Max retries exceeded').
BackoffDone ==
  /\ fc.pc = "backoff"
  /\ now' = now + fc.delays[Len(fc.delays)]
  /\ fc' = IF fc.i + 1 < fc.maxRetries
           THEN [fc EXCEPT !.pc = "attempt", !.i = @ + 1]
           ELSE Settle([fc EXCEPT !.i = @ + 1], "exhausted",
                       [threw |-> TRUE, value |-> <<>>,
                        error |-> [status |-> 0, responseStatus |-> 0,
                                   message |-> "Max retries exceeded"]])
  /\ UNCHANGED <<hostQueues, call, admitted, notFetch>>

\* The orchestrator idle, the keys configured or not.
InitFetch ==
  /\ CollectInit
  /\ store = [id \in Ids |-> NoDoc]
  /\ RateLimiterInit
  /\ FetchInit
  /\ PureInit
  /\ ResolverInit
  /\ RecInit /\ IngestIdle

NextFetch ==
  \/ \E f \in ApiFetchers : EnterFetcher(f)
  \/ AwaitThrottle
  \/ \E m \in MaxRetriesArgs : CallRetry(m)
  \/ InvokeFn
  \/ BackoffDone

SpecFetch == InitFetch /\ [][NextFetch]_vars

\* the k-th invocation of fn in the current retryWithBackoff call
Invocation(k) == fc.invoked[k].outcome
RetryableAt(k) ==
  Invocation(k).threw /\ Retryable(StatusOf(Invocation(k).error))

\* C12: in a call retryWithBackoff(fn, maxRetries), fn is invoked at most
\* maxRetries times; a failure of invocation i (counted from 0) that carries
\* status 429 or 5xx is followed by a wait of 2^i seconds (1 s, 2 s, 4 s),
\* after which fn is invoked again while fewer than maxRetries invocations
\* were made; a failure with any other status, or none, ends the call at
\* once with that error and no wait; a success ends it at once with fn's value.
C12_RetryWithBackoff ==
  LET n == Len(fc.invoked) IN
  /\ n <= fc.maxRetries
  /\ \A k \in 1..n :
       /\ RetryableAt(k) =>
            /\ Len(fc.delays) >= k
            /\ fc.delays[k] = (2 ^ (k - 1)) * 1000
            /\ k < n => fc.invoked[k + 1].at = fc.invoked[k].at + fc.delays[k]
            /\ (k = n /\ k < fc.maxRetries) => fc.pc \in {"backoff", "attempt"}
            /\ (k = n /\ fc.pc = "attempt") => now = fc.invoked[k].at + fc.delays[k]
            /\ (k = n /\ k = fc.maxRetries) =>
                 (fc.pc = "backoff" \/ fc.retryOutcome = "exhausted")
       /\ (Invocation(k).threw /\ ~RetryableAt(k)) =>
            /\ k = n
            /\ fc.retryOutcome = "rethrown"
            /\ Len(fc.delays) = k - 1
            /\ fc.caller = "direct" =>
                 (fc.pc = "returned" /\ fc.threw
                  /\ fc.thrown = Invocation(k).error)
       /\ ~Invocation(k).threw =>
            /\ k = n
            /\ fc.retryOutcome = "value"
            /\ Len(fc.delays) = k - 1
            /\ fc.caller = "direct" =>
                 (fc.pc = "returned" /\ ~fc.threw
                  /\ fc.result.items = Invocation(k).value)

\* C12 witness: a direct call whose fn failed with retryable statuses twice
\* and succeeded at the third invocation, after waits of 1 s and 2 s.
C12_Witness ==
  /\ fc.caller = "direct" /\ fc.pc = "returned"
  /\ Len(fc.invoked) = 3 /\ fc.retryOutcome = "value"
  /\ fc.delays = <<1000, 2000>>
  /\ now = 3000


\* the status of the last HTTP answer a fetcher got
LastResponse == fc.responses[Len(fc.responses)]

\* C11: when a query-API fetcher gets an HTTP 429 or 5xx answer, the request
\* is retried with backoff: the fetcher's retryWithBackoff call does not fail
\* on such an answer before 3 requests were made.
C11_RetriedOnHttpError ==
  (/\ fc.caller \in ApiFetchers
   /\ fc.retryOutcome \in {"rethrown", "exhausted"}
   /\ fc.invoked # <<>>
   /\ Retryable(LastResponse))
  => Len(fc.invoked) = 3

\* a fetcher was entered while its key was not configured
KeyMissing ==
  \/ fc.caller = "NewsAPI" /\ ~NEWSAPI_KEY
  \/ fc.caller = "Guardian" /\ ~GUARDIAN_API_KEY

\* C13: a NewsAPI or Guardian fetcher entered without its key has returned
\* (not thrown) success:false with the error 'API key not configured' and no
\* items, has called the rate limiter for no host and made no HTTP request;
\* the orchestrator's error list gets one entry for it and no items.
C13_MissingKey ==
  KeyMissing =>
    /\ fc.pc = "returned" /\ ~fc.threw
    /\ fc.result = [success |-> FALSE, source |-> fc.caller,
                    error |-> "API key not configured", items |-> <<>>]
    /\ \A h \in Hosts : hostQueues[h] = <<>> /\ admitted[h] = <<>>
    /\ fc.responses = <<>> /\ fc.invoked = <<>>
    /\ CollectErrors(<<fc.result>>) =
         <<[source |-> fc.caller, error |-> "API key not configured"]>>
    /\ CollectItems(<<fc.result>>) = <<>>

\* C13 witness: fetchGuardianAPI returned with no key configured.
C13_Witness ==
  fc.caller = "Guardian" /\ ~GUARDIAN_API_KEY /\ fc.pc = "returned"


(***************************************************************************)
(* Normalizer: stripHTML, normalizeContent                                 *)
(***************************************************************************)
\* the longest run of letters in a description the model feeds in
MaxDescLen == 250

\* a string of n letters a
A(n) == [k \in 1..n |-> "a"]

\* s.substring(0, n)
Substring(s, n) == SubSeq(s, 1, IF Len(s) < n THEN Len(s) ELSE n)

\* a || b for strings: '' and undefined are falsy
Or(a, b) == IF a # <<>> THEN a ELSE b

IsPrefix(pat, s) == Len(pat) <= Len(s) /\ SubSeq(s, 1, Len(pat)) = pat

\* the least element of a non-empty set of numbers
Least(S) == CHOOSE x \in S : \A y \in S : x <= y

\* the positions of s where pat occurs
Occurrences(s, pat) ==
  {k \in 1..(Len(s) - Len(pat) + 1) :
     s[k] = pat[1] /\ SubSeq(s, k, k + Len(pat) - 1) = pat}

RECURSIVE ReplaceAll(_, _, _)
\* s.replace(/pat/g, to) for a literal pattern: matches are found left to
\* right and do not overlap
ReplaceAll(s, pat, to) ==
  IF Occurrences(s, pat) = {} THEN s
  ELSE LET k == Least(Occurrences(s, pat))
       IN SubSeq(s, 1, k - 1) \o to \o
          ReplaceAll(SubSeq(s, k + Len(pat), Len(s)), pat, to)

\* the positions of a '<' that has a '>' somewhere after it
TagStarts(s) ==
  {k \in 1..Len(s) : s[k] = "<" /\ \E j \in (k + 1)..Len(s) : s[j] = ">"}

RECURSIVE ReplaceTags(_)
\* s.replace(/<[^>]*>/g, ' '): a '<' with no '>' after it stays
ReplaceTags(s) ==
  IF TagStarts(s) = {} THEN s
  ELSE LET k == Least(TagStarts(s))
           j == Least({x \in (k + 1)..Len(s) : s[x] = ">"})
       IN SubSeq(s, 1, k - 1) \o <<" ">> \o ReplaceTags(SubSeq(s, j + 1, Len(s)))

\* \s
IsSpace(c) == c \in {" ", "\n"}

RECURSIVE DropSpaces(_)
DropSpaces(s) ==
  IF s # <<>> /\ IsSpace(Head(s)) THEN DropSpaces(Tail(s)) ELSE s

RECURSIVE CollapseSpace(_)
\* s.replace(/\s+/g, ' ')
CollapseSpace(s) ==
  IF \A k \in 1..Len(s) : ~IsSpace(s[k]) THEN s
  ELSE LET k == Least({x \in 1..Len(s) : IsSpace(s[x])})
       IN SubSeq(s, 1, k - 1) \o <<" ">> \o
          CollapseSpace(DropSpaces(SubSeq(s, k + 1, Len(s))))

RECURSIVE TrimEnd(_)
TrimEnd(s) ==
  IF s # <<>> /\ IsSpace(s[Len(s)])
  THEN TrimEnd(SubSeq(s, 1, Len(s) - 1)) ELSE s

\* s.trim()
Trim(s) == TrimEnd(DropSpaces(s))

\* stripHTML(html): tags to spaces, the six entities in the code's order,
\* runs of whitespace to one space, trim
stripHTML(html) ==
  IF html = <<>> THEN <<>>
  ELSE LET s1 == ReplaceTags(html)
           s2 == ReplaceAll(s1, <<"&", "n", "b", "s", "p", ";">>, <<" ">>)
           s3 == ReplaceAll(s2, <<"&", "a", "m", "p", ";">>, <<"&">>)
           s4 == ReplaceAll(s3, <<"&", "l", "t", ";">>, <<"<">>)
           s5 == ReplaceAll(s4, <<"&", "g", "t", ";">>, <<">">>)
           s6 == ReplaceAll(s5, <<"&", "q", "u", "o", "t", ";">>, <<"\"">>)
           s7 == ReplaceAll(s6, <<"&", "#", "3", "9", ";">>, <<"'">>)
       IN Trim(CollapseSpace(s7))

\* a || b for date strings
DateOr(a, b) == IF a.present THEN a ELSE b

\* new Date().toISOString() at instant t: a text that parses back to t
ToISOString(t) == [present |-> TRUE, parseable |-> TRUE, time |-> t]

\* new Date(text): the instant, or an Invalid Date
NewDate(text) ==
  IF text.parseable THEN [valid |-> TRUE, time |-> text.time]
  ELSE [valid |-> FALSE, time |-> 0]

\* the full description kept whatever the license
PlainText_Always(license, description, excerpt) == description

\* const plainText = license === 'public-domain' ? description : excerpt
PlainText(license, description, excerpt) ==
  IF license = "public-domain" THEN description ELSE excerpt

\* normalizeContent(item, source, tags, license) at instant t, contentType
\* left to its default; source and tags are copied through and left out
normalizeContent(item, license, t) ==
  LET title == Substring(stripHTML(Or(item.title,
                 <<"U", "n", "t", "i", "t", "l", "e", "d">>)), 200)
      description == stripHTML(Or(item.description,
                                  Or(item.contentSnippet, item.summary)))
      excerpt == Substring(description, 200)
      plainText == PlainText(license, description, excerpt)
      publishedAt == DateOr(item.isoDate, DateOr(item.pubDate,
                       DateOr(item.published, ToISOString(t))))
  IN [title |-> title, excerpt |-> excerpt, plain_text |-> plainText,
      publishedAt |-> NewDate(publishedAt), url |-> item.link,
      license |-> license, contentType |-> "article", important |-> FALSE]

\* Inputs: descriptions around the 200 character cap, plain and with markup,
\* entities and whitespace that stripHTML shortens.
Descriptions ==
  {<<>>, A(1), A(199), A(200), A(201), A(MaxDescLen),
   <<"<", "b", ">">> \o A(201) \o <<"<", "/", "b", ">">>,
   A(100) \o <<" ", "\n", " ">> \o A(100),
   <<" ">> \o A(200) \o <<" ">>,
   A(199) \o <<"&", "a", "m", "p", ";">>,
   A(198) \o <<"&", "a", "m", "p", ";", "l", "t", ";">> \o A(2),
   A(199) \o <<"<">> \o A(3)}
Snippets == {<<>>, A(201)}
Summaries == {<<>>, A(2)}
Titles == {<<>>, <<"<", "i", ">">> \o A(201)}
Licenses == {"public-domain", "rss", "api", "restricted"}
Unparseable == [present |-> TRUE, parseable |-> FALSE, time |-> 0]
DateText(t) == [present |-> TRUE, parseable |-> TRUE, time |-> t]
IsoDates == {NoDate, DateText(500)}
PubDates == {NoDate, Unparseable, DateText(600)}
PublishedDates == {NoDate, DateText(700)}

FeedItems ==
  {[title |-> ti, description |-> d, contentSnippet |-> cs, summary |-> su,
    isoDate |-> iso, pubDate |-> pd, published |-> pb,
    link |-> <<"a", ".", "b">>] :
     ti \in Titles, d \in Descriptions, cs \in Snippets, su \in Summaries,
     iso \in IsoDates, pd \in PubDates, pb \in PublishedDates}

\* a fetcher is about to call normalizeContent(item, source, tags, license)
CallNormalize ==
  /\ pure.pc = "idle"
  /\ \E it \in FeedItems, l \in Licenses :
       pure' = [pure EXCEPT !.pc = "called", !.fn = "normalizeContent",
                            !.item = it, !.license = l]
  /\ UNCHANGED notPure

\* normalizeContent returns; new Date() reads the clock
NormalizeContent ==
  /\ pure.pc = "called" /\ pure.fn = "normalizeContent"
  /\ pure' = [pure EXCEPT !.pc = "returned",
                          !.out = normalizeContent(pure.item, pure.license, clock)]
  /\ UNCHANGED notPure

\* C14: normalizeContent returns an excerpt of at most 200 characters, and
\* for every license other than public-domain plain_text equals the excerpt
\* (so it is at most 200 characters as well).
C14_ExcerptBound ==
  (pure.pc = "returned" /\ pure.fn = "normalizeContent") =>
    /\ Len(pure.out.excerpt) <= 200
    /\ pure.license # "public-domain" =>
         /\ pure.out.plain_text = pure.out.excerpt
         /\ Len(pure.out.plain_text) <= 200

\* C14 witness: an item under the restricted license whose cleaned
\* description is longer than 200 characters, cut to an excerpt of 200.
C14_Witness ==
  /\ pure.pc = "returned" /\ pure.fn = "normalizeContent"
  /\ pure.license = "restricted"
  /\ Len(stripHTML(pure.item.description)) > 200
  /\ Len(pure.out.excerpt) = 200
  /\ pure.out.plain_text = pure.out.excerpt


(***************************************************************************)
(* Deduplicator: generateDocId                                             *)
(***************************************************************************)
\* letters of the path the long URL has beyond the 100 characters kept
LongPathLen == 120

LowerOf(c) ==
  CASE c = "A" -> "a" [] c = "B" -> "b" [] c = "C" -> "c" [] c = "H" -> "h"
    [] c = "P" -> "p" [] c = "S" -> "s" [] c = "T" -> "t" [] OTHER -> c
UpperOf(c) ==
  CASE c = "a" -> "A" [] c = "b" -> "B" [] c = "c" -> "C" [] c = "h" -> "H"
    [] c = "p" -> "P" [] c = "s" -> "S" [] c = "t" -> "T" [] OTHER -> c

\* url.toLowerCase()
ToLowerCase(s) == [k \in 1..Len(s) |-> LowerOf(s[k])]
ToUpperCase(s) == [k \in 1..Len(s) |-> UpperOf(s[k])]

Http == <<"h", "t", "t", "p", ":", "/", "/">>
Https == <<"h", "t", "t", "p", "s", ":", "/", "/">>

\* .replace(/^https?:\/\//, '')
StripScheme(s) ==
  IF IsPrefix(Http, s) THEN SubSeq(s, Len(Http) + 1, Len(s))
  ELSE IF IsPrefix(Https, s) THEN SubSeq(s, Len(Https) + 1, Len(s))
  ELSE s

\* the trailing slash kept
StripTrailingSlash_None(s) == s

\* .replace(/\/$/, ''): one slash at the very end
StripTrailingSlash(s) ==
  IF s # <<>> /\ s[Len(s)] = "/" THEN SubSeq(s, 1, Len(s) - 1) ELSE s

LowerAlnum ==
  {"a", "b", "c", "d", "e", "f", "g", "h", "i", "j", "k", "l", "m", "n", "o",
   "p", "q", "r", "s", "t", "u", "v", "w", "x", "y", "z",
   "0", "1", "2", "3", "4", "5", "6", "7", "8", "9"}

\* .replace(/[^a-z0-9]/g, '_')
ReplaceNonAlnum(s) ==
  [k \in 1..Len(s) |-> IF s[k] \in LowerAlnum THEN s[k] ELSE "_"]

\* crypto.createHash('md5').update(s).digest('hex'), tabulated for the
\* normalized strings the URLs below lead to
Md5Hex(s) ==
  CASE s = <<"a", "_", "b">> ->
         <<"d", "b", "f", "0", "8", "e", "0", "0", "b", "0", "1", "f", "d", "5", "8", "a", "4", "a", "5", "9", "6", "7", "7", "5", "3", "b", "4", "3", "7", "8", "4", "f">>
    [] s = <<"a", "_", "b", "_">> ->
         <<"3", "6", "9", "1", "9", "d", "7", "4", "a", "1", "9", "e", "a", "1", "6", "b", "6", "f", "d", "0", "5", "d", "3", "4", "0", "9", "b", "3", "f", "e", "4", "5">>
    [] s = <<"a", "_", "b", "_", "_">> ->
         <<"c", "3", "5", "a", "e", "3", "e", "2", "4", "6", "d", "4", "d", "5", "6", "9", "0", "9", "1", "c", "9", "e", "9", "2", "6", "0", "6", "9", "3", "2", "4", "2">>
    [] s = <<"a", "_", "b", "_">> \o A(96) ->
         <<"6", "c", "6", "a", "1", "7", "1", "3", "0", "1", "7", "a", "4", "2", "c", "6", "d", "d", "0", "d", "9", "0", "6", "f", "3", "0", "a", "5", "c", "c", "c", "4">>
    [] s = <<"a", "_", "b", "_", "c">> ->
         <<"8", "d", "2", "8", "c", "d", "d", "c", "2", "7", "4", "2", "3", "3", "8", "5", "3", "a", "8", "2", "e", "a", "e", "1", "c", "6", "c", "7", "f", "0", "b", "3">>
    [] s = <<"a", "_", "b", "_", "c", "_">> ->
         <<"3", "1", "c", "7", "6", "6", "c", "8", "9", "2", "f", "e", "7", "9", "1", "2", "1", "7", "d", "f", "0", "7", "9", "2", "6", "0", "7", "f", "e", "2", "7", "a">>
    [] s = <<"a", "_", "b", "_", "c", "_", "_">> ->
         <<"0", "7", "c", "b", "4", "c", "3", "b", "b", "1", "f", "f", "b", "b", "6", "1", "c", "d", "2", "6", "4", "7", "f", "8", "c", "4", "0", "4", "c", "2", "3", "3">>

\* generateDocId(url)
generateDocId(url) ==
  LET normalized ==
        Substring(ReplaceNonAlnum(StripTrailingSlash(StripScheme(
                    ToLowerCase(url)))), 100)
  IN Substring(Md5Hex(normalized), 20)

\* URLs without their scheme: short and long, with and without a final slash
UrlRests ==
  {<<"a", ".", "b">>, <<"a", ".", "b", "/">>,
   <<"a", ".", "b", "/", "c">>, <<"a", ".", "b", "/", "c", "/">>,
   <<"a", ".", "b", "/">> \o A(LongPathLen),
   <<"a", ".", "b", "/">> \o A(LongPathLen) \o <<"/">>}
Urls == {Https \o rest : rest \in UrlRests}

\* a second URL that differs from url only in letter case, only in the
\* scheme, or only in one more slash at the end
VariantKinds == {"case", "scheme", "slash"}
Variant(url, kind) ==
  CASE kind = "case" -> ToUpperCase(url)
    [] kind = "scheme" -> Http \o StripScheme(url)
    [] kind = "slash" -> url \o <<"/">>

\* two articles are about to get their ids
CallGenerateDocId ==
  /\ pure.pc = "idle"
  /\ \E u \in Urls, kind \in VariantKinds :
       pure' = [pure EXCEPT !.pc = "called", !.fn = "generateDocId",
                            !.kind = kind, !.url = u,
                            !.url2 = Variant(u, kind)]
  /\ UNCHANGED notPure

\* generateDocId(url) for both
GenerateDocId ==
  /\ pure.pc = "called" /\ pure.fn = "generateDocId"
  /\ pure' = [pure EXCEPT !.pc = "returned", !.id = generateDocId(pure.url),
                          !.id2 = generateDocId(pure.url2)]
  /\ UNCHANGED notPure

InitPure ==
  /\ CollectIdle /\ RateLimiterInit /\ FetchInit /\ PureInit /\ ResolverInit
  /\ RecInit /\ IngestIdle

NextPure ==
  \/ CallNormalize
  \/ NormalizeContent
  \/ CallGenerateDocId
  \/ GenerateDocId

SpecPure == InitPure /\ [][NextPure]_vars


\* the date text normalizeContent reads: the first of isoDate, pubDate and
\* published that the item has
ProvidedDate(item) ==
  DateOr(item.isoDate, DateOr(item.pubDate, item.published))

\* C15: publishedAt is the parsed published date when the item provides a
\* parseable one, and the current time when the date is absent or cannot be
\* parsed; every normalized record has a valid timestamp.
C15_Timestamp ==
  (pure.pc = "returned" /\ pure.fn = "normalizeContent") =>
    /\ pure.out.publishedAt.valid
    /\ pure.out.publishedAt.time =
         IF ProvidedDate(pure.item).parseable
         THEN ProvidedDate(pure.item).time ELSE clock

\* both calls of generateDocId have returned
IdsReturned == pure.pc = "returned" /\ pure.fn = "generateDocId"

\* C16 as stated: the id is a function of the URL, 20 characters long, and
\* two URLs that differ only in letter case, only in http versus https, or
\* only in one trailing slash get the same id.
C16_Original ==
  IdsReturned =>
    /\ pure.id = generateDocId(pure.url)
    /\ Len(pure.id) = 20 /\ Len(pure.id2) = 20
    /\ pure.id = pure.id2

\* C16 amended: as C16, the trailing slash being one added to a URL that
\* does not itself end in a slash.
C16_IdDeterminism ==
  IdsReturned =>
    /\ pure.id = generateDocId(pure.url)
    /\ Len(pure.id) = 20 /\ Len(pure.id2) = 20
    /\ (pure.kind = "slash" => pure.url[Len(pure.url)] # "/") =>
         pure.id = pure.id2

\* C16 witness: a URL and the same URL with a slash added get one id.
C16_Witness ==
  /\ IdsReturned /\ pure.kind = "slash"
  /\ pure.url = Https \o <<"a", ".", "b", "/", "c">>
  /\ pure.url2 = pure.url \o <<"/">>
  /\ pure.id = pure.id2


(***************************************************************************)
(* Recommendation endpoints: cache, per-user throttle, invalidation        *)
(***************************************************************************)
\* const CACHE_TTL_MS = 5 * 60 * 1000
CACHE_TTL_MS == 5 * 60 * 1000
\* const RATE_LIMIT_MS = 1 * 1000
RATE_LIMIT_MS == 1 * 1000

\* The instants at which the endpoints' events happen: the start, half a
\* throttle window and a whole one later, and a cache lifetime after the
\* second of these (more than a lifetime after the start).
Instants ==
  {1000, 1000 + 500, 1000 + RATE_LIMIT_MS, 1000 + 500 + CACHE_TTL_MS}

\* What the ranker and the storage can answer to one request: the ranker
\* fails or returns ids; the reads of the try block and those of the fallback
\* scorer succeed or throw; some of the ids resolve to stored, relevant
\* records; the user has interests or not; the fallback scorer finds items.
RankerLists == {<<>>, <<1, 2>>}
KeptSets == {{1, 2}, {}}
FallbackLists == {<<3>>}

\* nothing is cut off
Slice_All(items, n) == items

\* array.slice(0, n)
Slice(items, n) == SubSeq(items, 1, IF Len(items) < n THEN Len(items) ELSE n)

\* a cached entry never expires
Fresh_NoExpiry(entry, t) == entry.present

\* getCachedRecommendations: an entry, and not (now - timestamp > CACHE_TTL_MS)
Fresh(entry, t) == entry.present /\ ~(t - entry.timestamp > CACHE_TTL_MS)

\* the window is closed one millisecond longer
RateLimited_Inclusive(lastCall, t) == lastCall # 0 /\ t - lastCall <= RATE_LIMIT_MS

\* nobody is ever throttled
RateLimited_Never(lastCall, t) == FALSE

\* checkRateLimit returns false: lastCall && now - lastCall < RATE_LIMIT_MS
RateLimited(lastCall, t) == lastCall # 0 /\ t - lastCall < RATE_LIMIT_MS

\* invalidateCache(uid): delete every key that starts with `${uid}:`
invalidateCache(uid) ==
  [k \in DOMAIN cache |->
     IF IsPrefix(uid \o <<":">>, k) THEN NoEntry ELSE cache[k]]

\* getFallbackRecommendations(uid, count) when its reads succeed
Fallback(fb, count) == [items |-> Slice(fb, count), source |-> "fallback"]

\* the fallback's result is stored in the cache as well
Resolve_CacheFallback(count, gorseOk, recs, dbOk, kept, hasInterests, fbOk, fb) ==
  LET failed == [status |-> 500, data |-> NoData, toCache |-> FALSE]
      fallback == IF fbOk THEN [status |-> 200, data |-> Fallback(fb, count),
                                toCache |-> TRUE]
                  ELSE failed
      itemIds == Slice(recs, count)
      items == SelectSeq(itemIds, LAMBDA id : ~hasInterests \/ id \in kept)
      needMore == Len(items) < count /\ hasInterests
      all == IF needMore
             THEN items \o Fallback(fb, count - Len(items)).items ELSE items
  IN IF ~gorseOk \/ itemIds = <<>> THEN fallback
     ELSE IF ~dbOk \/ (needMore /\ ~fbOk) THEN fallback
     ELSE [status |-> 200, toCache |-> TRUE,
           data |-> [items |-> Slice(all, count), source |-> "gorse"]]

\* getRecommendationsForUser after the cache miss: the outcome of the try
\* block and of its catch. status 500 stands for the exception that reaches
\* the endpoint when the fallback's own reads throw.
Resolve(count, gorseOk, recs, dbOk, kept, hasInterests, fbOk, fb) ==
  LET failed == [status |-> 500, data |-> NoData, toCache |-> FALSE]
      fallback == IF fbOk THEN [status |-> 200, data |-> Fallback(fb, count),
                                toCache |-> FALSE]
                  ELSE failed
      itemIds == Slice(recs, count)
      items == SelectSeq(itemIds, LAMBDA id : ~hasInterests \/ id \in kept)
      needMore == Len(items) < count /\ hasInterests
      all == IF needMore
             THEN items \o Fallback(fb, count - Len(items)).items ELSE items
  IN IF ~gorseOk \/ itemIds = <<>> THEN fallback
     ELSE IF ~dbOk \/ (needMore /\ ~fbOk) THEN fallback
     ELSE [status |-> 200, toCache |-> TRUE,
           data |-> [items |-> Slice(all, count), source |-> "gorse"]]

\* the outcomes one request for count items can have
Resolutions ==
  [count \in Counts |->
     {Resolve(count, gorseOk, recs, dbOk, kept, hasInterests, fbOk, fb) :
        gorseOk \in BOOLEAN, recs \in RankerLists, dbOk \in BOOLEAN,
        kept \in KeptSets, hasInterests \in BOOLEAN, fbOk \in BOOLEAN,
        fb \in FallbackLists}]

\* GET /recommendations?uid=..&count=.. with a uid: the handler up to its
\* first await. checkRateLimit, then in getRecommendationsForUser the cache
\* check; on a miss the request to the ranker is sent.
Receive(r, uid, count) ==
  /\ req[r].pc = "idle"
  /\ \A q \in Reqs : q < r => req[q].pc # "idle"
  /\ uid # <<>>
  /\      LET key == getCacheKey(uid, count)
              entry == cache[key]
              arrived == [req[r] EXCEPT
                            !.uid = uid, !.count = count, !.arrivedAt = dateNow,
                            !.hit = entry.present /\ dateNow - entry.timestamp <= CACHE_TTL_MS,
                            !.epochAt = hist.epoch[uid],
                            !.prevWriter = hist.lastWriter[key],
                            !.lastAcceptedAt = hist.lastAccepted[uid],
                            !.clearedSince = hist.cleared[uid],
                            !.firstAfterInvalidate = hist.invalidated[uid],
                            !.settledBefore = {q \in Reqs : req[q].pc = "done"}]
          IN IF RateLimited(rateLimitMap[uid], dateNow)
             THEN /\ req' = [req EXCEPT ![r] =
                               [arrived EXCEPT !.pc = "done", !.status = 429,
                                               !.error = "rate_limit_exceeded",
                                               !.doneAt = dateNow]]
                  /\ hist' = [hist EXCEPT !.invalidated[uid] = FALSE]
                  /\ UNCHANGED <<cache, rateLimitMap>>
             ELSE /\ rateLimitMap' = [rateLimitMap EXCEPT ![uid] = dateNow]
                  /\ hist' = [hist EXCEPT !.invalidated[uid] = FALSE,
                                          !.cleared[uid] = FALSE,
                                          !.lastAccepted[uid] = dateNow]
                  /\ IF Fresh(entry, dateNow)
                     THEN /\ req' = [req EXCEPT ![r] =
                                       [arrived EXCEPT !.pc = "done", !.status = 200,
                                                       !.cached = TRUE,
                                                       !.items = entry.data.items,
                                                       !.source = entry.data.source,
                                                       !.doneAt = dateNow]]
                          /\ UNCHANGED cache
                     ELSE /\ req' = [req EXCEPT ![r] =
                                       [arrived EXCEPT !.pc = "ranker",
                                                       !.rankerCalled = TRUE]]
                          /\ cache' = [cache EXCEPT ![key] = NoEntry]
  /\ UNCHANGED <<dateNow, notResolver>>

\* The ranker has answered and the rest of getRecommendationsForUser runs:
\* the storage reads, the relevance filter, the fallback, then
\* setCachedRecommendations for a ranker result, and res.json.
Complete(r) ==
  /\ req[r].pc = "ranker"
  /\ \E out \in Resolutions[req[r].count] :
       LET key == getCacheKey(req[r].uid, req[r].count)
       IN /\ req' = [req EXCEPT ![r] =
                       [@ EXCEPT !.pc = "done", !.status = out.status,
                                 !.items = out.data.items,
                                 !.source = out.data.source,
                                 !.error = IF out.status = 500
                                           THEN "internal_error" ELSE "none",
                                 !.storageRead = TRUE, !.wrote = out.toCache,
                                 !.doneAt = dateNow]]
          /\ IF out.toCache
             THEN /\ cache' = [cache EXCEPT ![key] =
                                 [present |-> TRUE, data |-> out.data,
                                  timestamp |-> dateNow]]
                  /\ hist' = [hist EXCEPT !.lastWriter[key] = r]
             ELSE UNCHANGED <<cache, hist>>
  /\ UNCHANGED <<rateLimitMap, dateNow, notResolver>>

\* POST /invalidate-cache {uid}: invalidateCache(uid) and
\* rateLimitMap.delete(uid), before the handler's awaits; the sync of the
\* user's interests to the ranker that follows answers success either way.
InvalidateCacheEndpoint(uid) ==
  /\ hist.invalidations < MaxInvalidations
  /\ cache' = invalidateCache(uid)
  /\ rateLimitMap' = [rateLimitMap EXCEPT ![uid] = 0]
  /\ hist' = [hist EXCEPT !.epoch[uid] = @ + 1, !.cleared[uid] = TRUE,
                          !.invalidated[uid] = TRUE, !.invalidations = @ + 1]
  /\ UNCHANGED <<dateNow, req, notResolver>>

\* POST /interaction/sync {userId, contentId, type}: after the feedback was
\* sent to the ranker, invalidateCache(userId); the throttle is left alone.
InteractionSync(uid) ==
  /\ hist.invalidations < MaxInvalidations
  /\ cache' = invalidateCache(uid)
  /\ hist' = [hist EXCEPT !.epoch[uid] = @ + 1, !.invalidations = @ + 1]
  /\ UNCHANGED <<rateLimitMap, dateNow, req, notResolver>>

\* Time passes at the endpoints.
TickResolver ==
  /\ \E r \in Reqs : req[r].pc # "done"
  /\ \E t \in Instants :
       /\ t > dateNow
       /\ dateNow' = t
  /\ UNCHANGED <<cache, rateLimitMap, req, hist, notResolver>>

InitResolver ==
  /\ CollectIdle /\ RateLimiterInit /\ FetchInit /\ PureInit /\ ResolverInit
  /\ RecInit /\ IngestIdle

NextResolver ==
  \/ \E r \in Reqs, uid \in Uids, count \in Counts : Receive(r, uid, count)
  \/ \E r \in Reqs : Complete(r)
  \/ \E uid \in Uids : InvalidateCacheEndpoint(uid)
  \/ \E uid \in Uids : InteractionSync(uid)
  \/ TickResolver

SpecResolver == InitResolver /\ [][NextResolver]_vars


(***************************************************************************)
(* Properties of the recommendation endpoints                              *)
(***************************************************************************)
Arrived(r) == req[r].pc # "idle"
Answered(r) == req[r].pc = "done"
SameKey(a, b) == req[a].uid = req[b].uid /\ req[a].count = req[b].count

\* request b arrived after request a was answered, with no cache
\* invalidation for their user between the two arrivals
Follows(a, b) ==
  /\ Answered(a) /\ Arrived(b) /\ a \in req[b].settledBefore
  /\ SameKey(a, b)
  /\ req[a].epochAt = req[b].epochAt

\* C17: of two requests for the same (userId, count) made within
\* the cache TTL, with no invalidation in between, the second returns the
\* first one's item list, marked cached:true.
C17_Original ==
  \A a, b \in Reqs :
    (/\ Follows(a, b) /\ Answered(b)
     /\ req[a].status = 200
     /\ req[b].arrivedAt - req[a].arrivedAt <= CACHE_TTL_MS)
    => (req[b].status = 200 /\ req[b].cached /\ req[b].items = req[a].items)

\* at its arrival the request's user had an accepted request less than
\* RATE_LIMIT_MS ago
RecentlyAccepted(r) ==
  /\ req[r].lastAcceptedAt # 0
  /\ req[r].arrivedAt - req[r].lastAcceptedAt < RATE_LIMIT_MS

\* C18: a request that finds a fresh cached result for its (userId, count)
\* is answered from the cache, also within the throttle window of the user's
\* previous request; only requests that miss the cache are rejected.
C18_CacheBeforeRate ==
  \A r \in Reqs :
    (Answered(r) /\ req[r].hit) => (req[r].status = 200 /\ req[r].cached)

\* the request was rejected by the throttle, without side effects
Rejected(r) ==
  /\ Answered(r)
  /\ req[r].status = 429 /\ req[r].error = "rate_limit_exceeded"
  /\ ~req[r].rankerCalled /\ ~req[r].storageRead

\* C19 as stated: a request that misses the cache and arrives less than
\* RATE_LIMIT_MS after its user's last accepted request is rejected with
\* rate_limit_exceeded, with no ranker call and no storage read.
C19_Original ==
  \A r \in Reqs :
    (Arrived(r) /\ ~req[r].hit /\ RecentlyAccepted(r)) => Rejected(r)

\* C19 amended: as C19, unless POST /invalidate-cache for the user came
\* after that accepted request; and a request is rejected only on account
\* of an accepted request of its own user.
C19_Throttle ==
  \A r \in Reqs :
    /\ (Arrived(r) /\ ~req[r].hit /\ RecentlyAccepted(r)
        /\ ~req[r].clearedSince) => Rejected(r)
    /\ req[r].status = 429 => (RecentlyAccepted(r) /\ ~req[r].clearedSince)

\* C19 witness: a user's second request, half a window after the first and
\* with nothing cached for it, is rejected.
C19_Witness ==
  /\ Rejected(2) /\ ~req[2].hit
  /\ req[1].uid = req[2].uid /\ req[1].status # 429
  /\ req[2].arrivedAt - req[1].arrivedAt = 500

\* C20: once POST /invalidate-cache was handled for a user, and until that
\* user's next recommendation request arrives, there is no cache entry for
\* the user under any count and no throttle timestamp; that next request is
\* neither served from the cache nor rejected by the throttle.
C20_Invalidation ==
  /\ \A u \in Uids :
       hist.invalidated[u] =>
         /\ \A c \in Counts : ~cache[getCacheKey(u, c)].present
         /\ rateLimitMap[u] = 0
  /\ \A r \in Reqs :
       (Arrived(r) /\ req[r].firstAfterInvalidate) =>
         (~req[r].cached /\ req[r].status # 429)

(***************************************************************************)
(* Recommendation computation: relevance filter and fallback scorer        *)
(***************************************************************************)
\* tags and interests
Technology == <<"t", "e", "c", "h", "n", "o", "l", "o", "g", "y">>
Design == <<"d", "e", "s", "i", "g", "n">>
TechNews == <<"t", "e", "c", "h", "-", "n", "e", "w", "s">>
Poetry == <<"p", "o", "e", "t", "r", "y">>
Tech == <<"t", "e", "c", "h">>
TechCap == <<"T", "e", "c", "h">>

\* The collection 'content' at the time of the call: id -> record, with
\* publishedAt given as whole days before now. Record 4 has two tags and is
\* published today, record 5 is 30 days old, record 6 is older than the
\* fallback scorer's cutoff; v gives the important flag and the contentType
\* of records 4 and 5.
Article(isArticle) == IF isArticle THEN "article" ELSE "poem"
Content(v) ==
  [id \in 1..6 |->
     CASE id = 1 -> [tags |-> <<Technology>>, daysAgo |-> 2,
                     important |-> FALSE, contentType |-> "article"]
       [] id = 2 -> [tags |-> <<TechNews>>, daysAgo |-> 3,
                     important |-> FALSE, contentType |-> "article"]
       [] id = 3 -> [tags |-> <<Poetry>>, daysAgo |-> 1,
                     important |-> TRUE, contentType |-> "poem"]
       [] id = 4 -> [tags |-> <<Technology, Design>>, daysAgo |-> 0,
                     important |-> v.imp4, contentType |-> Article(v.art4)]
       [] id = 5 -> [tags |-> <<Tech>>, daysAgo |-> 30,
                     important |-> v.imp5, contentType |-> Article(v.art5)]
       [] id = 6 -> [tags |-> <<TechCap>>, daysAgo |-> 130,
                     important |-> FALSE, contentType |-> "article"]]
Variants == [imp4 : BOOLEAN, art4 : BOOLEAN, imp5 : BOOLEAN, art5 : BOOLEAN]

\* users/{uid}: absent, or with its interests
UserDocs ==
  {[exists |-> FALSE, interests |-> <<>>]} \cup
  {[exists |-> TRUE, interests |-> i] :
     i \in {<<>>, <<Technology>>, <<Technology, Design>>}}

\* the ranker's answer: the request fails, or a ranked list of item ids (7 is
\* an id with no stored record), of which the ranker returns the first n
RankedLists == {<<>>, <<1, 2, 3>>, <<3, 6, 1, 2>>, <<6, 5, 3>>, <<7, 4>>}
GorseAnswers ==
  {[ok |-> FALSE, recs |-> <<>>]} \cup {[ok |-> TRUE, recs |-> l] : l \in RankedLists}
RecCounts == 1..MaxCount

\* scores are held in units of 1/35, which makes daysSince / 7 and the
\* factor 0.8 whole numbers
ScoreUnit == 35

\* s.includes(sub)
Includes(s, sub) == sub = <<>> \/ Occurrences(s, sub) # {}

\* tags.some(tag => userInterests.includes(tag.toLowerCase()))
hasExactMatch(tags, userInterests) ==
  \E k \in 1..Len(tags), j \in 1..Len(userInterests) :
    userInterests[j] = ToLowerCase(tags[k])

\* only a tag that contains an interest matches
hasPartialMatch_OneWay(tags, userInterests) ==
  \E k \in 1..Len(tags), j \in 1..Len(userInterests) :
    Includes(ToLowerCase(tags[k]), ToLowerCase(userInterests[j]))

\* tags.some(tag => userInterests.some(interest =>
\*   tag.toLowerCase().includes(interest.toLowerCase()) ||
\*   interest.toLowerCase().includes(tag.toLowerCase())))
hasPartialMatch(tags, userInterests) ==
  \E k \in 1..Len(tags), j \in 1..Len(userInterests) :
    \/ Includes(ToLowerCase(tags[k]), ToLowerCase(userInterests[j]))
    \/ Includes(ToLowerCase(userInterests[j]), ToLowerCase(tags[k]))

\* if (userInterests.length === 0 || hasExactMatch || hasPartialMatch)
Relevant(tags, userInterests) ==
  \/ Len(userInterests) = 0
  \/ hasExactMatch(tags, userInterests)
  \/ hasPartialMatch(tags, userInterests)

\* tags.filter(tag => userInterests.includes(tag)).length
tagMatchCount(tags, userInterests) ==
  Len(SelectSeq(tags, LAMBDA tag :
        \E j \in 1..Len(userInterests) : userInterests[j] = tag))

\* tags.filter(tag => userInterests.some(interest => ...)).length
partialMatches(tags, userInterests) ==
  Len(SelectSeq(tags, LAMBDA tag : hasPartialMatch(<<tag>>, userInterests)))

\* Math.max(0, 5 - daysSince / 7), in units of 1/7
recencyBoost(daysSince) == IF 35 - daysSince > 0 THEN 35 - daysSince ELSE 0

\* (tagMatchScore + partialMatchScore + recencyBoost + importanceBoost)
\*   * contentTypeBoost
score(data, userInterests) ==
  (tagMatchCount(data.tags, userInterests) * 10 * 7
   + partialMatches(data.tags, userInterests) * 5 * 7
   + recencyBoost(data.daysAgo)
   + (IF data.important THEN 3 ELSE 0) * 7)
  * (IF data.contentType = "article" THEN 5 ELSE 4)

\* every scored record is included
Matched_Always(tags, userInterests) == TRUE

\* if (tagMatchCount > 0 || partialMatches > 0)
Matched(tags, userInterests) ==
  tagMatchCount(tags, userInterests) > 0 \/ partialMatches(tags, userInterests) > 0

RECURSIVE Insert(_, _)
\* x placed after the items whose score is not lower than its own
Insert(sorted, x) ==
  IF sorted = <<>> THEN <<x>>
  ELSE IF Head(sorted).score >= x.score
       THEN <<Head(sorted)>> \o Insert(Tail(sorted), x)
       ELSE <<x>> \o sorted

\* the list is left as it was
Sort_Unsorted(items) == items

RECURSIVE Sort(_)
\* scoredItems.sort((a, b) => b.score - a.score): descending, stable
Sort(items) ==
  IF items = <<>> THEN <<>>
  ELSE Insert(Sort(SubSeq(items, 1, Len(items) - 1)), items[Len(items)])

\* cutoffDate.setDate(cutoffDate.getDate() - 120); .limit(300)
CutoffDays == 120
SnapshotLimit == 300

RECURSIVE OrderByRecent(_, _)
\* .orderBy('publishedAt', 'desc')
OrderByRecent(ids, content) ==
  IF ids = {} THEN <<>>
  ELSE LET first == CHOOSE i \in ids :
                      \A j \in ids : content[i].daysAgo <= content[j].daysAgo
       IN <<first>> \o OrderByRecent(ids \ {first}, content)

\* the ids of contentSnapshot, in its order
Snapshot(content) ==
  Slice(OrderByRecent({id \in DOMAIN content : content[id].daysAgo <= CutoffDays},
                      content),
        SnapshotLimit)

\* getFallbackRecommendations(uid, count), its reads succeeding
getFallbackRecommendations(user, content, count) ==
  IF ~user.exists
  THEN [items |-> <<>>, source |-> "fallback", reason |-> "user_not_found"]
  ELSE IF Len(user.interests) = 0
  THEN [items |-> <<>>, source |-> "fallback", reason |-> "no_interests"]
  ELSE LET snap == Snapshot(content)
           included == SelectSeq(snap, LAMBDA id :
                         Matched(content[id].tags, user.interests))
           scoredItems == [k \in 1..Len(included) |->
                             [contentId |-> included[k],
                              score |-> score(content[included[k]], user.interests),
                              by |-> "fallback"]]
       IN IF snap = <<>>
          THEN [items |-> <<>>, source |-> "fallback", reason |-> "no_content"]
          ELSE [items |-> Slice(Sort(scoredItems), count), source |-> "fallback",
                reason |-> "none"]

\* the supplement is asked for only below half the count
NeedMore_Half(n, count, userInterests) == 2 * n < count /\ Len(userInterests) > 0

\* if (items.length < count && userInterests.length > 0)
NeedMore(n, count, userInterests) == n < count /\ Len(userInterests) > 0

\* an exception that leaves getRecommendationsForUser: the endpoint answers
\* 500 internal_error with the error's message
Thrown(error, trace) ==
  [trace EXCEPT !.status = 500, !.error = error, !.items = <<>>, !.source = "none"]

\* the ranker's error is passed on
Catch_Rethrow(error, handled) == Thrown(error, handled)

\* catch (error) { return getFallbackRecommendations(uid, count) }
Catch(error, handled) == handled

\* getRecommendationsForUser(uid, count) after the cache miss, as the
\* endpoint answers it. requested, itemIds, kept and fallbackCalls record the
\* n asked of the ranker, the ids resolved, the ids that pass the filter and
\* the counts the fallback scorer was called with.
getRecommendationsForUser(user, content, gorse, count, dbOk, fbOk) ==
  LET answer == Slice(gorse.recs, count * 2)
      itemIds == Slice(answer, count)
      userInterests == IF user.exists THEN user.interests ELSE <<>>
      kept == SelectSeq(itemIds, LAMBDA id :
                /\ id \in DOMAIN content
                /\ Relevant(content[id].tags, userInterests))
      items == [k \in 1..Len(kept) |->
                  [contentId |-> kept[k], score |-> 1 * ScoreUnit, by |-> "gorse"]]
      trace == [status |-> 200, error |-> "none", items |-> <<>>,
                source |-> "none", requested |-> count * 2,
                itemIds |-> <<>>, kept |-> <<>>, fallbackCalls |-> <<>>]
      filtered == [trace EXCEPT !.itemIds = itemIds, !.kept = kept]
      \* return getFallbackRecommendations(uid, count)
      fallback(t) ==
        LET called == [t EXCEPT !.fallbackCalls = Append(@, count)]
        IN IF fbOk
           THEN [called EXCEPT
                   !.items = getFallbackRecommendations(user, content, count).items,
                   !.source = "fallback"]
           ELSE Thrown("storage", called)
      more == count - Len(items)
      supplemented == [filtered EXCEPT !.fallbackCalls = <<more>>]
  IN IF ~gorse.ok THEN Catch("ranker", fallback(trace))
     ELSE IF Len(itemIds) = 0 THEN fallback(trace)
     ELSE IF ~dbOk THEN Catch("storage", fallback(trace))
     ELSE IF NeedMore(Len(items), count, userInterests)
     THEN IF fbOk
          THEN [supplemented EXCEPT
                  !.items = Slice(items \o getFallbackRecommendations(
                                             user, content, more).items, count),
                  !.source = "gorse"]
          ELSE Catch("storage", fallback(supplemented))
     ELSE [filtered EXCEPT !.items = Slice(items, count), !.source = "gorse"]

\* a call of getRecommendationsForUser that misses the cache
CallRecommend ==
  /\ rec.pc = "idle"
  /\ \E user \in UserDocs, v \in Variants, gorse \in GorseAnswers,
        count \in RecCounts, dbOk \in BOOLEAN, fbOk \in BOOLEAN :
       rec' = [pc |-> "called", fn |-> "getRecommendationsForUser",
               user |-> user, variant |-> v, gorse |-> gorse, count |-> count,
               dbOk |-> dbOk, fbOk |-> fbOk]
  /\ UNCHANGED notRec

\* the call is answered
GetRecommendationsForUser ==
  /\ rec.pc = "called" /\ rec.fn = "getRecommendationsForUser"
  /\ rec' = [rec EXCEPT !.pc = "returned"] @@
            [out |-> getRecommendationsForUser(rec.user, Content(rec.variant),
                       rec.gorse, rec.count, rec.dbOk, rec.fbOk)]
  /\ UNCHANGED notRec

\* a call of getFallbackRecommendations whose reads succeed
CallFallback ==
  /\ rec.pc = "idle"
  /\ \E user \in UserDocs, v \in Variants, count \in RecCounts :
       rec' = [pc |-> "called", fn |-> "getFallbackRecommendations",
               user |-> user, variant |-> v, count |-> count]
  /\ UNCHANGED notRec

\* the call returns
GetFallbackRecommendations ==
  /\ rec.pc = "called" /\ rec.fn = "getFallbackRecommendations"
  /\ rec' = [rec EXCEPT !.pc = "returned"] @@
            [out |-> getFallbackRecommendations(rec.user, Content(rec.variant),
                                                rec.count)]
  /\ UNCHANGED notRec

InitRec ==
  /\ CollectIdle /\ RateLimiterInit /\ FetchInit /\ PureInit /\ ResolverInit
  /\ RecInit /\ IngestIdle

NextRec ==
  \/ CallRecommend
  \/ GetRecommendationsForUser
  \/ CallFallback
  \/ GetFallbackRecommendations

SpecRec == InitRec /\ [][NextRec]_vars


(***************************************************************************)
(* Properties of the recommendation computation                            *)
(***************************************************************************)
Recommended == rec.pc = "returned" /\ rec.fn = "getRecommendationsForUser"
FellBack == rec.pc = "returned" /\ rec.fn = "getFallbackRecommendations"
\* the interests the user has on record
InterestsOf(user) == IF user.exists THEN user.interests ELSE <<>>
\* the candidates the ranker returned for the 2 x count asked
Candidates == Slice(rec.gorse.recs, 2 * rec.count)
\* the request got as far as the relevance filter
Filtered == Recommended /\ rec.gorse.ok /\ Candidates # <<>> /\ rec.dbOk
ContentIds(items) == [k \in 1..Len(items) |-> items[k].contentId]
\* the items of the result that come from the ranker's candidates
RankerDerived(out) ==
  {out.items[k].contentId : k \in {j \in 1..Len(out.items) : out.items[j].by = "gorse"}}

\* C21: when the ranker call fails or returns no candidate, the answer is
\* the fallback scorer's result, tagged fallback; and no answer ever carries
\* the ranker's error.
C21_RankerFailure ==
  Recommended =>
    /\ rec.out.error # "ranker"
    /\ (rec.fbOk /\ (~rec.gorse.ok \/ Candidates = <<>>)) =>
         /\ rec.out.status = 200 /\ rec.out.source = "fallback"
         /\ rec.out.items =
              getFallbackRecommendations(rec.user, Content(rec.variant),
                                         rec.count).items

\* C21 witness: the ranker call failed and the caller got the fallback
\* scorer's items.
C21_Witness ==
  /\ Recommended /\ ~rec.gorse.ok
  /\ rec.out.status = 200 /\ rec.out.source = "fallback" /\ rec.out.items # <<>>

\* some tag of the record and some interest are equal, or one contains the
\* other, letter case ignored
PairMatch(tags, interests) ==
  \E k \in 1..Len(tags), j \in 1..Len(interests) :
    LET tag == ToLowerCase(tags[k])
        interest == ToLowerCase(interests[j])
    IN tag = interest \/ Includes(tag, interest) \/ Includes(interest, tag)
Stored(id) == id \in DOMAIN Content(rec.variant)
TagsOf(id) == Content(rec.variant)[id].tags

\* C22: 2 x count candidates are asked of the ranker and every candidate it
\* returns is resolved and filtered, so that a stored, relevant candidate
\* ranked after position count is in the result when fewer than count of the
\* candidates before it pass the filter.
C22_Headroom ==
  (Filtered /\ rec.out.source = "gorse") =>
    /\ rec.out.requested = 2 * rec.count
    /\ rec.out.itemIds = Candidates
    /\ \A k \in (rec.count + 1)..Len(Candidates) :
         (/\ Stored(Candidates[k])
          /\ PairMatch(TagsOf(Candidates[k]), InterestsOf(rec.user))
          /\ Cardinality({j \in 1..(k - 1) :
                 /\ Stored(Candidates[j])
                 /\ PairMatch(TagsOf(Candidates[j]), InterestsOf(rec.user))})
               < rec.count)
         => Candidates[k] \in RankerDerived(rec.out)

\* C23: with at least one interest on record, a resolved candidate is kept
\* if and only if some tag/interest pair is equal or one contains the other,
\* case-insensitively; with no interest on record every resolved candidate
\* is kept.
C23_FilterRule ==
  Filtered =>
    \A k \in 1..Len(rec.out.itemIds) :
      LET id == rec.out.itemIds[k] IN
      Stored(id) =>
        ((\E j \in 1..Len(rec.out.kept) : rec.out.kept[j] = id)
           <=> (\/ Len(InterestsOf(rec.user)) = 0
                \/ PairMatch(TagsOf(id), InterestsOf(rec.user))))

\* C23 witness: of three resolved candidates, the one whose tag 'Tech' is
\* contained in the interest 'technology' when case is ignored and the one
\* tagged 'tech' are kept, the one tagged 'poetry' is dropped.
C23_Witness ==
  /\ Filtered /\ rec.out.itemIds = <<6, 5, 3>>
  /\ InterestsOf(rec.user) = <<Technology>>
  /\ TagsOf(6) = <<TechCap>> /\ TagsOf(5) = <<Tech>> /\ TagsOf(3) = <<Poetry>>
  /\ rec.out.kept = <<6, 5>>

\* C24: for interests [technology, design] and candidates tagged
\* [technology], [tech-news] and [poetry], the ranker-derived result has the
\* first two candidates and not the third.
C24_FilterExample ==
  (/\ Filtered /\ rec.out.source = "gorse"
   /\ InterestsOf(rec.user) = <<Technology, Design>>
   /\ rec.out.itemIds = <<1, 2, 3>>
   /\ TagsOf(1) = <<Technology>> /\ TagsOf(2) = <<TechNews>>
   /\ TagsOf(3) = <<Poetry>>)
  => (/\ 1 \in RankerDerived(rec.out) /\ 2 \in RankerDerived(rec.out)
      /\ 3 \notin RankerDerived(rec.out))

\* the items the surviving candidates become
Surviving(out) ==
  [k \in 1..Len(out.kept) |->
     [contentId |-> out.kept[k], score |-> 1 * ScoreUnit, by |-> "gorse"]]

ExactMatches(tags, interests) ==
  Cardinality({k \in 1..Len(tags) :
                 \E j \in 1..Len(interests) : interests[j] = tags[k]})
\* the number of its other tags that contain or are contained in an interest
PartialOnly(tags, interests) ==
  Cardinality({k \in 1..Len(tags) :
                 /\ ~\E j \in 1..Len(interests) : interests[j] = tags[k]
                 /\ PairMatch(<<tags[k]>>, interests)})
\* (exactMatches x 10 + partialMatches x 5 + recencyBoost + importanceBoost)
\* x contentTypeFactor, in units of 1/35
Formula(data, interests) ==
  (ExactMatches(data.tags, interests) * 10 * 7
   + PartialOnly(data.tags, interests) * 5 * 7
   + (IF data.daysAgo < 35 THEN 35 - data.daysAgo ELSE 0)
   + (IF data.important THEN 3 * 7 ELSE 0))
  * (IF data.contentType = "article" THEN 5 ELSE 4)

\* C26: the score of every item the fallback scorer returns is
\* (exactMatches x 10 + partialMatches x 5 + recencyBoost + importanceBoost)
\* x contentTypeFactor, a tag equal to an interest counting as exact only.
C26_ScoreFormula ==
  FellBack =>
    \A k \in 1..Len(rec.out.items) :
      rec.out.items[k].score =
        Formula(Content(rec.variant)[rec.out.items[k].contentId],
                rec.user.interests)

\* C27: every item the fallback scorer returns has a tag that equals,
\* contains or is contained in one of the user's interests, and a user with
\* no interests gets an empty list.
C27_FallbackRelevance ==
  FellBack =>
    /\ \A k \in 1..Len(rec.out.items) :
         PairMatch(TagsOf(rec.out.items[k].contentId), InterestsOf(rec.user))
    /\ Len(InterestsOf(rec.user)) = 0 => rec.out.items = <<>>


\* the record has two exact tag matches and was published today
TwoExactToday(data, interests) ==
  ExactMatches(data.tags, interests) = 2 /\ data.daysAgo = 0
\* the record has one partial match, no exact one, and is 30 days old
OnePartialOld(data, interests) ==
  /\ ExactMatches(data.tags, interests) = 0
  /\ PartialOnly(data.tags, interests) = 1 /\ data.daysAgo = 30
PositionOf(items, id) == CHOOSE k \in 1..Len(items) : items[k].contentId = id
Returns(items, id) == \E k \in 1..Len(items) : items[k].contentId = id

\* C27 witness: the scorer returns the 30 days old record tagged 'tech' and
\* leaves out the recent, important record tagged 'poetry', which matches no
\* interest.
C27_Witness ==
  /\ FellBack /\ rec.user.interests = <<Technology>>
  /\ Returns(rec.out.items, 5)
  /\ Content(rec.variant)[3].important /\ Content(rec.variant)[3].daysAgo = 1
  /\ ~Returns(rec.out.items, 3)

\* C28: a record with two exact matches published today scores strictly
\* higher than, and is returned before, a record with one partial match
\* published 30 days ago, whatever their important flags and content types;
\* the list is in non-increasing score order and has at most count items.
C28_FallbackOrder ==
  FellBack =>
    LET content == Content(rec.variant)
        interests == InterestsOf(rec.user)
        items == rec.out.items
    IN /\ Len(items) <= rec.count
       /\ \A k \in 1..(Len(items) - 1) : items[k].score >= items[k + 1].score
       /\ \A a, b \in DOMAIN content :
            (TwoExactToday(content[a], interests) /\
             OnePartialOld(content[b], interests)) =>
              /\ score(content[a], interests) > score(content[b], interests)
              /\ Returns(items, b) =>
                   /\ Returns(items, a)
                   /\ PositionOf(items, a) < PositionOf(items, b)

\* C28 witness: the record with two exact matches is a poem not flagged
\* important, the 30 days old one an article flagged important, and both are
\* returned.
C28_Witness ==
  /\ FellBack /\ InterestsOf(rec.user) = <<Technology, Design>>
  /\ TwoExactToday(Content(rec.variant)[4], rec.user.interests)
  /\ OnePartialOld(Content(rec.variant)[5], rec.user.interests)
  /\ ~rec.variant.imp4 /\ ~rec.variant.art4
  /\ rec.variant.imp5 /\ rec.variant.art5
  /\ Returns(rec.out.items, 4) /\ Returns(rec.out.items, 5)

(***************************************************************************)
(* Cache expiry, result size, cached sources, invalidation frame           *)
(***************************************************************************)
\* the step in which request r arrives
Arrives(r) == req[r].pc = "idle" /\ req'[r].pc # "idle"

\* C31: a request that gets past the throttle is answered from the cache
\* exactly when the entry of its key is at most CACHE_TTL_MS old, and then
\* with the entry's items; an older entry is never returned, it is deleted
\* by the lookup and the request goes on to the ranker as a cache miss.
C31_CacheExpiry ==
  [][\A r \in Reqs :
       Arrives(r) =>
         LET key == getCacheKey(req'[r].uid, req'[r].count)
             entry == cache[key]
             age == dateNow - entry.timestamp
         IN /\ req'[r].cached =>
                 /\ entry.present /\ age <= CACHE_TTL_MS
                 /\ req'[r].items = entry.data.items
                 /\ cache'[key] = entry
            /\ (entry.present /\ age <= CACHE_TTL_MS /\ req'[r].status # 429)
                 => req'[r].cached
            /\ (entry.present /\ age > CACHE_TTL_MS /\ req'[r].status # 429)
                 => /\ ~cache'[key].present
                    /\ req'[r].pc = "ranker" /\ req'[r].rankerCalled]_vars

\* C31 witness: the second request arrives more than a cache lifetime after
\* the first one stored its result under the same key; it is sent to the
\* ranker and the entry is gone.
C31_Witness ==
  /\ req[1].wrote /\ req[2].pc = "ranker" /\ SameKey(1, 2)
  /\ hist.invalidations = 0
  /\ req[2].arrivedAt - req[1].doneAt > CACHE_TTL_MS
  /\ ~cache[getCacheKey(req[2].uid, req[2].count)].present

\* C32: the item list returned has at most count items, on every path: a
\* cache hit, the ranker's items, the ranker's items supplemented by the
\* fallback scorer, and the fallback scorer alone.
C32_ResultSize ==
  /\ (Recommended \/ FellBack) => Len(rec.out.items) <= rec.count
  /\ \A r \in Reqs : Answered(r) => Len(req[r].items) <= req[r].count

\* C32 witness: ranker items supplemented by the fallback scorer, count of
\* them in all, where the scorer alone has more than it was asked for.
C32_Witness ==
  /\ Recommended /\ rec.out.source = "gorse"
  /\ rec.out.kept # <<>> /\ rec.out.fallbackCalls # <<>>
  /\ Len(rec.out.items) = rec.count
  /\ \E k \in 1..Len(rec.out.items) : rec.out.items[k].by = "fallback"
  /\ Len(getFallbackRecommendations(rec.user, Content(rec.variant),
                                    MaxCount).items)
       > rec.out.fallbackCalls[1]

(***************************************************************************)
(* Legacy ingestion: ingestAllFeeds (ingestion.js)                         *)
(***************************************************************************)
Feeds == 1..NumFeeds
\* process.env.MAX_ITEMS_PER_SYNC (default 500, the batch limit): configured
\* to the batch limit or below it
MaxItemsSettings == {BatchLimit - 1, BatchLimit}
IngestModes == {"full", "incremental"}

\* parseFeed(feedUrl, tags, db): the feed cannot be read, or it delivers n
\* items that are not in the collection yet
FeedResults ==
  {[success |-> FALSE, n |-> 0]} \cup
  {[success |-> TRUE, n |-> k] : k \in 0..MaxPerFeed}

\* result.newItems of feed f: docIds unique to the feed
NewItems(f, n) == [k \in 1..n |-> <<f, k>>]

\* if (allNewItems.length >= MAX_ITEMS_PER_SYNC) break, in both loops; the
\* loops also end after the last feed
FeedsDone(all, max, f) == Len(all) >= max \/ f = NumFeeds

\* ingestAllFeeds(db, gorseRequest, {mode}): entry
IngestAllFeeds(mode, max) ==
  /\ ing.pc = "idle"
  /\ ing' = [IdleIngest EXCEPT !.pc = "feeds", !.mode = mode, !.max = max]
  /\ UNCHANGED notIngest

\* one pass of the loop over the feeds in incremental mode with the feed on
\* cooldown: continue, without the check of the limit
SkipFeed ==
  /\ ing.pc = "feeds" /\ ing.mode = "incremental"
  /\ ing' = [ing EXCEPT !.feed = @ + 1,
                        !.pc = IF ing.feed = NumFeeds THEN "insert" ELSE "feeds"]
  /\ UNCHANGED notIngest

\* one pass of the loop over the feeds: parseFeed, the new items appended to
\* allNewItems, then the check of the limit
ParseFeed ==
  /\ ing.pc = "feeds"
  /\ \E result \in FeedResults :
       LET all == IF result.success
                  THEN ing.allNewItems \o NewItems(ing.feed, result.n)
                  ELSE ing.allNewItems
       IN ing' = [ing EXCEPT
                    !.allNewItems = all,
                    !.totalNewItems = @ + result.n,
                    !.failedFeeds = IF result.success THEN @ ELSE @ + 1,
                    !.errors = IF result.success THEN @ ELSE @ + 1,
                    !.feed = @ + 1,
                    !.pc = IF FeedsDone(all, ing.max, ing.feed)
                           THEN "insert" ELSE "feeds"]
  /\ UNCHANGED notIngest

\* the items batch.set() has taken since the last commit, when the loop
\* over allNewItems reaches a commit: batchCount >= 500, or the end
Batch_Legacy(all, next) ==
  SubSeq(all, next,
         IF Len(all) < next + BatchLimit - 1 THEN Len(all)
         ELSE next + BatchLimit - 1)

\* await batch.commit(): the batch's items are written, or the commit
\* fails and the exception leaves ingestAllFeeds
CommitBatch ==
  /\ ing.pc = "insert" /\ ing.next <= Len(ing.allNewItems)
  /\ ~ing.committed
  /\ \E ok \in BOOLEAN :
       LET items == Batch_Legacy(ing.allNewItems, ing.next)
       IN ing' = IF ok
                 THEN [ing EXCEPT !.inserted = @ \cup {items[k] : k \in 1..Len(items)},
                                  !.next = @ + Len(items), !.committed = TRUE]
                 ELSE [ing EXCEPT !.pc = "failed"]
  /\ UNCHANGED notIngest

\* batch.set() on the batch that was committed: the Firestore client throws
\* ("Cannot modify a WriteBatch that has been committed")
SetOnCommittedBatch ==
  /\ ing.pc = "insert" /\ ing.next <= Len(ing.allNewItems)
  /\ ing.committed
  /\ ing' = [ing EXCEPT !.pc = "failed"]
  /\ UNCHANGED notIngest

\* syncItemsToGorse(allNewItems, gorseRequest) when there are new items, its
\* error caught and recorded; then the statistics are returned
SyncItemsToGorse ==
  /\ ing.pc = "insert" /\ ing.next > Len(ing.allNewItems)
  /\ \E ok \in BOOLEAN :
       /\ Len(ing.allNewItems) = 0 => ok
       /\ ing' = [ing EXCEPT
                    !.pc = "done",
                    !.syncedToGorse = IF ok THEN Len(ing.allNewItems) ELSE 0,
                    !.errors = IF ok THEN @ ELSE @ + 1]
  /\ UNCHANGED notIngest

InitIngest ==
  /\ CollectIdle /\ RateLimiterInit /\ FetchInit /\ PureInit /\ ResolverInit
  /\ RecInit /\ IngestIdle

NextIngest ==
  \/ \E mode \in IngestModes, max \in MaxItemsSettings : IngestAllFeeds(mode, max)
  \/ SkipFeed
  \/ ParseFeed
  \/ CommitBatch
  \/ SetOnCommittedBatch
  \/ SyncItemsToGorse

SpecIngest == InitIngest /\ [][NextIngest]_vars

\* C33: a run of ingestAllFeeds never inserts more than MAX_ITEMS_PER_SYNC
\* new items into storage, whatever the feeds deliver.
C33_ItemCap == Cardinality(ing.inserted) <= ing.max

\* request b arrived after request a, for the same key, was answered by the
\* fallback scorer, and no request stored a result under the key in between
Repeats(a, b) ==
  /\ Answered(a) /\ Arrived(b) /\ a \in req[b].settledBefore
  /\ SameKey(a, b)
  /\ req[a].status = 200 /\ req[a].source = "fallback"
  /\ req[b].prevWriter = req[a].prevWriter

\* only results of the ranker path are stored in the cache
RankerOnly ==
  /\ \A k \in Keys : cache[k].present => cache[k].data.source = "gorse"
  /\ \A r \in Reqs : req[r].wrote => (req[r].status = 200 /\ req[r].source = "gorse")

\* C34 as stated: a result of the fallback path is never written to the
\* cache, only ranker-sourced results are; a request repeated after a
\* fallback answer is not served from the cache and queries the ranker.
C34_Original ==
  /\ RankerOnly
  /\ \A a, b \in Reqs :
       Repeats(a, b) => (~req[b].cached /\ req[b].rankerCalled)

\* C34 amended: as C34, for the repeated requests that the per-user
\* throttle accepts; one it rejects is not served from the cache either, and
\* does not reach the ranker.
C34_FallbackNotCached ==
  /\ RankerOnly
  /\ \A a, b \in Reqs :
       Repeats(a, b) =>
         /\ ~req[b].cached
         /\ req[b].status # 429 => req[b].rankerCalled
         /\ req[b].status = 429 => ~req[b].rankerCalled

\* C34 witness: a request answered by the fallback scorer, and the same
\* request a throttle window later, which is sent to the ranker.
C34_Witness ==
  /\ Repeats(1, 2) /\ ~req[1].wrote
  /\ req[2].arrivedAt - req[1].arrivedAt = RATE_LIMIT_MS
  /\ req[2].rankerCalled /\ ~req[2].cached
  /\ \A k \in Keys : ~cache[k].present

\* C35: whatever the interleaving of a recommendation request with an
\* invalidation of its user's cache, every cache entry present for the user
\* was stored by a request that arrived after the user's last invalidation:
\* a request in flight when the invalidation ran does not store its result.
C35_InFlight ==
  \A u \in Uids, c \in Counts :
    LET key == getCacheKey(u, c)
    IN cache[key].present =>
         /\ hist.lastWriter[key] \in Reqs
         /\ req[hist.lastWriter[key]].epochAt = hist.epoch[u]

\* C36: the item list returned never contains the same contentId twice,
\* also when the ranker's items are supplemented by the fallback scorer.
C36_NoDuplicates ==
  (Recommended \/ FellBack) =>
    \A j, k \in 1..Len(rec.out.items) :
      rec.out.items[j].contentId = rec.out.items[k].contentId => j = k

(***************************************************************************)
(* Invalidation over user ids that contain ':' or extend one another       *)
(***************************************************************************)
\* user ids: a plain one, one that continues it after the key separator,
\* and one that continues it with a letter
FrameUids == {<<"u">>, <<"u", ":", "x">>, <<"u", "v">>}
FrameKeys == {getCacheKey(u, c) : u \in FrameUids, c \in Counts}
\* a result stored by an earlier request
StoredEntry ==
  [present |-> TRUE, data |-> [items |-> <<1>>, source |-> "gorse"],
   timestamp |-> 1000]

\* the cache and the throttle as earlier requests of these users left them
InitFrame ==
  /\ CollectIdle /\ RateLimiterInit /\ FetchInit /\ PureInit
  /\ RecInit /\ IngestIdle
  /\ cache \in [FrameKeys -> {NoEntry, StoredEntry}]
  /\ rateLimitMap \in [FrameUids -> {0, 1000}]
  /\ dateNow = 1000
  /\ req = [r \in Reqs |-> IdleReq]
  /\ hist = [epoch |-> [u \in FrameUids |-> 0],
             lastWriter |-> [k \in FrameKeys |-> 0],
             lastAccepted |-> [u \in FrameUids |-> 0],
             cleared |-> [u \in FrameUids |-> FALSE],
             invalidated |-> [u \in FrameUids |-> FALSE],
             invalidations |-> 0]

NextFrame ==
  \/ \E uid \in FrameUids : InvalidateCacheEndpoint(uid)
  \/ \E uid \in FrameUids : InteractionSync(uid)

SpecFrame == InitFrame /\ [][NextFrame]_vars

\* the step invalidates the cache of user u
Invalidates(u) == hist'.epoch[u] # hist.epoch[u]

\* C37: an invalidation for user u removes the cache entries of u under
\* every count and leaves the cache entries and the throttle timestamp of
\* every other user as they were, also when a user id contains ':' or
\* extends another.
C37_InvalidationFrame ==
  [][\A u \in DOMAIN rateLimitMap :
       Invalidates(u) =>
         /\ \A c \in Counts : ~cache'[getCacheKey(u, c)].present
         /\ \A w \in DOMAIN rateLimitMap \ {u} :
              /\ \A c \in Counts :
                   cache'[getCacheKey(w, c)] = cache[getCacheKey(w, c)]
              /\ rateLimitMap'[w] = rateLimitMap[w]]_vars

(***************************************************************************)
(* The throttle of a user who retries                                      *)
(***************************************************************************)
\* the user who had a request accepted when the model starts
Retrying == <<"u">>

\* as ResolverInit, after a request of the user was accepted at the start
\* and answered by the fallback scorer (nothing cached)
InitRetry ==
  /\ CollectIdle /\ RateLimiterInit /\ FetchInit /\ PureInit
  /\ RecInit /\ IngestIdle
  /\ cache = [k \in Keys |-> NoEntry]
  /\ rateLimitMap = [u \in Uids |-> IF u = Retrying THEN 1000 ELSE 0]
  /\ dateNow = 1000
  /\ req = [r \in Reqs |-> IdleReq]
  /\ hist = [epoch |-> [u \in Uids |-> 0],
             lastWriter |-> [k \in Keys |-> 0],
             lastAccepted |-> [u \in Uids |-> IF u = Retrying THEN 1000 ELSE 0],
             cleared |-> [u \in Uids |-> FALSE],
             invalidated |-> [u \in Uids |-> FALSE],
             invalidations |-> 0]

SpecRetry == InitRetry /\ [][NextResolver]_vars

\* C38: the throttle timestamp of a user is the time of the user's last
\* accepted request (a rejected request does not move it); without a POST
\* /invalidate-cache since that request, a request is rejected exactly when
\* it arrives less than RATE_LIMIT_MS after it, so accepted requests are at
\* least RATE_LIMIT_MS apart and a retry is accepted once RATE_LIMIT_MS have
\* passed since the last accepted request.
C38_ThrottleWindow ==
  /\ \A u \in Uids :
       rateLimitMap[u] = IF hist.cleared[u] THEN 0 ELSE hist.lastAccepted[u]
  /\ \A r \in Reqs :
       (Arrived(r) /\ req[r].lastAcceptedAt # 0 /\ ~req[r].clearedSince) =>
         (req[r].status = 429 <=>
            req[r].arrivedAt - req[r].lastAcceptedAt < RATE_LIMIT_MS)

\* C38 witness: half a window after the accepted request a retry is
\* rejected; half a window later, a whole window after the accepted request,
\* the next retry is accepted.
C38_Witness ==
  /\ Rejected(1) /\ req[1].uid = Retrying /\ req[2].uid = Retrying
  /\ req[1].arrivedAt = 1000 + 500 /\ req[2].arrivedAt = 1000 + RATE_LIMIT_MS
  /\ req[2].lastAcceptedAt = 1000 /\ ~req[2].clearedSince
  /\ Arrived(2) /\ req[2].status # 429

(***************************************************************************)
(* The same id fetched more than once in a run                             *)
(***************************************************************************)
\* the positions of allItems that hold the id
PositionsOf(r, id) ==
  {k \in 1..Len(run[r].allItems) : run[r].allItems[k].docId = id}
\* the positions the persist loop has dealt with
Processed(r) == 1..(run[r].i - 1)
\* how often the id is in a list of ids
Times(ids, id) == Cardinality({k \in 1..Len(ids) : ids[k] = id})
\* the ids of the records in itemsToSync
SyncIds(r) == [k \in 1..Len(run[r].itemsToSync) |-> run[r].itemsToSync[k].docId]
\* the run fetched the id more than once and it was not stored before
FetchedTwice(r, id) ==
  /\ Live(r) /\ Cardinality(PositionsOf(r, id)) >= 2
  /\ ~run[r].storeAtStart[id].exists

\* C39 as stated: in a completed live run that fetched a new id more than
\* once, the record is written once, counted once and submitted once, and
\* every other occurrence is counted as existing.
C39_Original ==
  \A r \in Runs, id \in Ids :
    (FetchedTwice(r, id) /\ run[r].ret = "complete") =>
      /\ Times(run[r].written, id) = 1
      /\ Times(SyncIds(r), id) = 1
      /\ run[r].existingItems >= Cardinality(PositionsOf(r, id)) - 1

\* C39 amended: in a live run no id is written, counted or put in the
\* ranker batch more than once, whatever the number of its occurrences, and
\* every occurrence the loop has dealt with is either the one written, or
\* one whose read or write failed, or counted as existing.
C39_DuplicateIds ==
  \A r \in Runs :
    Live(r) =>
      /\ \A id \in Ids :
           /\ Times(run[r].written, id) <= 1
           /\ Times(SyncIds(r), id) <= 1
           /\ \A k \in 1..Len(Submissions(r)) :
                Times(Submissions(r)[k].items, id) <= 1
           /\ run[r].storeAtStart[id].exists => Times(run[r].written, id) = 0
      /\ run[r].newItemsAdded = Len(run[r].written)
      /\ run[r].existingItems =
           Cardinality(Processed(r) \ run[r].ioFailedAt) - Len(run[r].written)

\* C39 witness: a completed run whose items held a new id twice; the first
\* occurrence was written and submitted, the second counted as existing.
C39_Witness ==
  \E id \in Ids :
    /\ FetchedTwice(1, id) /\ run[1].ret = "complete"
    /\ run[1].ioFailedAt = {}
    /\ Processed(1) = 1..Len(run[1].allItems)
    /\ Times(run[1].written, id) = 1
    /\ run[1].existingItems >= 1
    /\ Len(Submissions(1)) = 1 /\ Times(Submissions(1)[1].items, id) = 1

\* C40: two URLs that agree on the first 100 characters of their normalized
\* form get one id from generateDocId, and of the items that carry one id
\* collectAllContent stores one: an item whose id is in storage is treated
\* as existing and its record is never written.
C40_CollisionSkipped ==
  /\ \A id \in Ids : writeCount[id] <= 1
  /\ \A r \in Runs, id \in Ids :
       run[r].storeAtStart[id].exists => Times(run[r].written, id) = 0

====
